---- MODULE Spec2Model ----
(***************************************************************************)
(* A model of the AnanBot conversational core: the per-context history     *)
(* store (HistoryManager / Multimodal history fields), the karma store,    *)
(* the request handler Multimodal.generate_text with its marker parsing,   *)
(* and the long-term memory index (MemoryEngine / Multimodal memory code). *)
(*                                                                         *)
(* Strings that the code only compares or stores are TLA+ strings.  Text   *)
(* that the code scans (model replies, extraction replies) is a sequence   *)
(* of tokens: one token per marker, per whitespace character and per run   *)
(* of other characters.                                                    *)
(***************************************************************************)
EXTENDS Integers, Sequences, FiniteSets, TLC

VARIABLES
    histories,      \* self.histories     : context id -> deque of messages
    usernames,      \* self.usernames     : context id -> display name
    last_images,    \* self.last_images   : context id -> list of image paths
    history_file,   \* the JSON document at self.history_file
    appendLog,      \* history: every message ever appended, per context
    lastOp,         \* history: the last store operation, its arguments and pre-state
    nOps,           \* history: store operations so far, counted up to MaxOps
    karma_db,       \* self.karma_db      : user id -> int | dict
    image_files,    \* the image files that exist under self.image_dir
    nextImage,      \* the next generated unique file name (uuid4)
    collection,     \* the Chroma collection: a set of facts (id, document, metadata)
    clock,          \* time.time()
    req,            \* history: the last generate_text call (inputs, pre-state)
    result,         \* the value the last generate_text call returned
    nRequests,      \* number of generate_text calls so far
    workers,        \* the store_memory calls in progress
    completed,      \* history: the store_memory calls that have returned
    nCalls,         \* history: how many store_memory calls were made
    retrieved,      \* history: the last call, when it was a retrieve_context call
    call,           \* history: the last call of a component method: arguments,
                    \* the store before it, and what it returned
    vault,          \* the files written by ImageHandler.save_image_to_disk:
                    \* path -> bytes on disk, and (history) the data of the call
    karma_file      \* the JSON document at self.karma_file, as it lies on disk

histVars  == <<histories, usernames, last_images, history_file, appendLog, lastOp, nOps>>
coreVars  == <<karma_db, image_files, nextImage, req, result, nRequests>>
memVars   == <<collection, clock, workers, completed, nCalls, retrieved>>
vars      == <<histVars, coreVars, memVars, call, vault, karma_file>>

-----------------------------------------------------------------------------
(* Bounds and program constants *)

\* config.py sets HISTORY_MAXLEN = 1000; the model runs the same deque with a
\* short capacity so that eviction happens within a few appends.
HISTORY_MAXLEN == 3
\* the claim's "N+5": how many appends beyond the capacity the model follows
ExtraAppends == 5
\* how many store operations SpecRoundTrip follows
MaxOps == 4
\* how many karma store calls SpecKarma follows
MaxKarmaOps == 2
CONTEXT_LENGTH_IMAGE == 3

UserIds == {"1", "21"}          \* user ids double as context ids in generate_text
Roles == {"user", "assistant"}
Names == {"bob", "amy"}
Paths == {"p1", "p2"}

NoValue == [kind |-> "none"]

-----------------------------------------------------------------------------
(* Python dict and list helpers *)

\* dict.get(k, default)
Get(d, k, default) == IF k \in DOMAIN d THEN d[k] ELSE default

\* d[k] = v
Put(d, k, v) == [x \in (DOMAIN d) \cup {k} |-> IF x = k THEN v ELSE d[x]]

EmptyDict == [x \in {} |-> NoValue]

\* s[-n:]
LastN(s, n) == IF Len(s) <= n THEN s ELSE SubSeq(s, Len(s) - n + 1, Len(s))

\* collections.deque(items, maxlen=HISTORY_MAXLEN)
Deque(items) == LastN(items, HISTORY_MAXLEN)

\* deque.append on a deque built without maxlen
DequeAppendUnbounded(d, x) == Append(d, x)

\* deque.append on a deque built with maxlen=HISTORY_MAXLEN
DequeAppend(d, x) ==
    IF Len(d) >= HISTORY_MAXLEN THEN Append(Tail(d), x) ELSE Append(d, x)

-----------------------------------------------------------------------------
(* HistoryManager *)

\* get_history: the deque of a context, created empty on first access
get_history_store(h, c) == IF c \in DOMAIN h THEN h ELSE Put(h, c, <<>>)

\* add_message: get_history, then append {"role": role, "content": content}
add_message_store(h, c, role, content) ==
    LET h1 == get_history_store(h, c)
    IN  Put(h1, c, DequeAppend(h1[c], [role |-> role, content |-> content]))

\* update_last_images with the truncation off by one (slice [-(N+1):])
update_last_images_off_by_one(li, c, path) ==
    Put(li, c, LastN(Append(Get(li, c, <<>>), path), CONTEXT_LENGTH_IMAGE + 1))

\* update_last_images: append the path, keep the last CONTEXT_LENGTH_IMAGE
update_last_images_store(li, c, path) ==
    LET cur  == Get(li, c, <<>>)
        more == Append(cur, path)
    IN  Put(li, c, IF Len(more) > CONTEXT_LENGTH_IMAGE
                   THEN LastN(more, CONTEXT_LENGTH_IMAGE) ELSE more)

\* get_last_images
get_last_images(li, c) == Get(li, c, <<>>)

\* save: one entry per context that has a deque in self.histories
SaveDocument(h, u, li) ==
    [c \in DOMAIN h |->
        [shape      |-> "dict",
         username   |-> [kind |-> "str", v |-> Get(u, c, "Unknown")],
         messages   |-> h[c],
         last_image |-> [kind |-> "list", v |-> Get(li, c, <<>>)]]]

\* _load: the three dicts a fresh instance builds from a document
LoadHistories(doc) ==
    LET keep == {c \in DOMAIN doc : doc[c].shape \in {"list", "dict"}}
    IN  [c \in keep |-> Deque(doc[c].messages)]

LoadUsernames(doc) ==
    LET keep == {c \in DOMAIN doc : doc[c].shape \in {"list", "dict"}}
    IN  [c \in keep |->
            IF doc[c].shape = "list" THEN "Unknown"
            ELSE IF doc[c].username.kind = "str" THEN doc[c].username.v
            ELSE "Unknown"]

LoadLastImages(doc) ==
    LET keep == {c \in DOMAIN doc :
                    /\ doc[c].shape = "dict"
                    /\ doc[c].last_image.kind \in {"list", "str"}}
    IN  [c \in keep |->
            IF doc[c].last_image.kind = "list" THEN doc[c].last_image.v
            ELSE <<doc[c].last_image.v>>]

-----------------------------------------------------------------------------
(* Documents a history file can hold when an instance is constructed: no   *)
(* file, the legacy bare list, a dict without the image field or without   *)
(* the username, a dict with the legacy single image path, and the shape   *)
(* save writes.                                                            *)

OldMessage == [role |-> "user", content |-> 0]

LegacyListEntry == [shape |-> "list", messages |-> <<OldMessage>>]

DictEntry(username, messages, last_image) ==
    [shape |-> "dict", username |-> username, messages |-> messages,
     last_image |-> last_image]

InitialFiles ==
    { EmptyDict,
      [c \in {"1"} |-> LegacyListEntry],
      [c \in {"1"} |-> DictEntry([kind |-> "str", v |-> "bob"], <<OldMessage>>,
                                 [kind |-> "absent"])],
      [c \in {"1"} |-> DictEntry([kind |-> "absent"], <<>>,
                                 [kind |-> "str", v |-> "p1"])],
      [c \in UserIds |->
          IF c = "1"
          THEN DictEntry([kind |-> "str", v |-> "amy"], <<OldMessage>>,
                         [kind |-> "list", v |-> <<"p1", "p2">>])
          ELSE LegacyListEntry] }

\* What the store answers for a context: get_history, the username the code
\* reads with usernames.get(c, "Unknown"), and get_last_images.
Observed(h, u, li, c) ==
    [messages |-> Get(h, c, <<>>),
     username |-> Get(u, c, "Unknown"),
     images   |-> get_last_images(li, c)]

TotalAppended == LET RECURSIVE Sum(_)
                     Sum(S) == IF S = {} THEN 0
                               ELSE LET c == CHOOSE x \in S : TRUE
                                    IN  Len(appendLog[c]) + Sum(S \ {c})
                 IN  Sum(UserIds)

Counted == IF nOps < MaxOps THEN nOps + 1 ELSE nOps

\* HistoryManager.__init__ on a document: empty dicts, then _load
HistoryInit(doc) ==
    /\ history_file = doc
    /\ histories = LoadHistories(doc)
    /\ usernames = LoadUsernames(doc)
    /\ last_images = LoadLastImages(doc)
    /\ appendLog = [c \in UserIds |-> Get(LoadHistories(doc), c, <<>>)]
    /\ lastOp = [op |-> "init"]
    /\ nOps = 0

GetHistory(c) ==
    /\ histories' = get_history_store(histories, c)
    /\ lastOp' = [op |-> "get_history", c |-> c]
    /\ nOps' = Counted
    /\ UNCHANGED <<usernames, last_images, history_file, appendLog, coreVars, memVars, call, vault, karma_file>>

SetUsername(c, name) ==
    /\ usernames' = Put(usernames, c, name)
    /\ lastOp' = [op |-> "set_username", c |-> c]
    /\ nOps' = Counted
    /\ UNCHANGED <<histories, last_images, history_file, appendLog, coreVars, memVars, call, vault, karma_file>>

AddMessage(c, role) ==
    /\ TotalAppended < HISTORY_MAXLEN + ExtraAppends
    /\ LET content == TotalAppended + 1
       IN  /\ histories' = add_message_store(histories, c, role, content)
           /\ appendLog' = [appendLog EXCEPT
                              ![c] = Append(@, [role |-> role, content |-> content])]
    /\ lastOp' = [op |-> "add_message", c |-> c]
    /\ nOps' = Counted
    /\ UNCHANGED <<usernames, last_images, history_file, coreVars, memVars, call, vault, karma_file>>

UpdateLastImages(c, path) ==
    /\ last_images' = update_last_images_store(last_images, c, path)
    /\ lastOp' = [op |-> "update_last_images", c |-> c, path |-> path,
                  before |-> get_last_images(last_images, c)]
    /\ nOps' = Counted
    /\ UNCHANGED <<histories, usernames, history_file, appendLog, coreVars, memVars, call, vault, karma_file>>

\* save, with save_json writing the whole document
Save ==
    /\ history_file' = SaveDocument(histories, usernames, last_images)
    /\ lastOp' = [op |-> "save"]
    /\ nOps' = Counted
    /\ UNCHANGED <<histories, usernames, last_images, appendLog, coreVars, memVars, call, vault, karma_file>>

\* a fresh HistoryManager constructed on the current file
Restart ==
    /\ histories' = LoadHistories(history_file)
    /\ usernames' = LoadUsernames(history_file)
    /\ last_images' = LoadLastImages(history_file)
    /\ appendLog' = [c \in UserIds |-> Get(LoadHistories(history_file), c, <<>>)]
    /\ lastOp' = [op |-> "load"]
    /\ nOps' = Counted
    /\ UNCHANGED <<history_file, coreVars, memVars, call, vault, karma_file>>

-----------------------------------------------------------------------------
(* Text scanning.  A text is a sequence of tokens; " " is one whitespace   *)
(* character, a marker is one token, any other token is a run of ordinary  *)
(* characters.                                                             *)

\* Python: t in s
Contains(s, t) == \E i \in 1..Len(s) : s[i] = t

\* Python: s.replace(t, "")
Replace(s, t) == SelectSeq(s, LAMBDA x : x # t)

RECURSIVE LStrip(_)
LStrip(s) == IF s # <<>> /\ Head(s) = " " THEN LStrip(Tail(s)) ELSE s

RECURSIVE RStrip(_)
RStrip(s) == IF s # <<>> /\ s[Len(s)] = " " THEN RStrip(SubSeq(s, 1, Len(s) - 1)) ELSE s

\* the text as it is, whitespace kept
NoStrip(s) == s

\* Python: s.strip()
Strip(s) == RStrip(LStrip(s))

FirstIndex(s, t) == CHOOSE i \in 1..Len(s) : s[i] = t /\ \A j \in 1..(i - 1) : s[j] # t

\* re.search(r"\{gen\}\s*(.+)", s, re.IGNORECASE | re.DOTALL): the leftmost
\* marker that has at least one character after it.  group(0) runs from the
\* marker to the end of s; keywords is group(1).strip().
Search(s, marker) ==
    IF Contains(s, marker) /\ FirstIndex(s, marker) < Len(s)
    THEN [matched  |-> TRUE,
          start    |-> FirstIndex(s, marker),
          keywords |-> Strip(SubSeq(s, FirstIndex(s, marker) + 1, Len(s)))]
    ELSE [matched |-> FALSE]

\* final_reply.replace(match.group(0), "").strip()
CutMatch(s, m) == Strip(SubSeq(s, 1, m.start - 1))

\* a JSON file holding the whole of a document, as a finished json.dump
\* leaves it
Complete(doc) == [kind |-> "complete", v |-> doc]


-----------------------------------------------------------------------------
(* Karma records (Multimodal.get_karma_info / update_karma) *)

LegacyScore(n) == [kind |-> "int", v |-> n]
KarmaDict(d) == [kind |-> "dict", d |-> d]

\* get_karma_info: the dict of a user (a legacy int is wrapped, an unseen
\* user gets the defaults)
get_karma_info(db, u) ==
    IF u \in DOMAIN db /\ db[u].kind = "int"
        THEN [f \in {"score", "username"} |-> IF f = "score" THEN db[u].v ELSE "Unknown"]
    ELSE IF u \in DOMAIN db /\ db[u].kind = "dict" THEN db[u].d
    ELSE [f \in {"score", "username"} |-> IF f = "score" THEN 0 ELSE "Unknown"]

\* get_karma
get_karma(db, u) == Get(get_karma_info(db, u), "score", 0)

\* the record is set to the change itself, the current score forgotten
update_karma_absolute(db, u, change, username) ==
    Put(db, u, KarmaDict([f \in {"score", "username"} |->
                             IF f = "score" THEN change ELSE "Unknown"]))

\* update_karma: a new {"score", "username"} dict replaces the record
update_karma(db, u, change, username) ==
    LET info == get_karma_info(db, u)
        new_score == Get(info, "score", 0) + change
        name == IF username # "" THEN username ELSE Get(info, "username", "Unknown")
    IN  Put(db, u, KarmaDict([f \in {"score", "username"} |->
                                 IF f = "score" THEN new_score ELSE name]))

-----------------------------------------------------------------------------
(* MemoryEngine: ids, parsing and the Chroma collection *)

THRESHOLD == 1
MEMORY_RECALL_COUNT == 2
\* distances are counted in steps of 1/DistScale
DistScale == 2
\* how many store_memory calls SpecMemStore follows
MaxCalls == 2

\* the threads that run store_memory: the request thread and two others
WorkerIds == {"main", "t1", "t2"}
\* user texts, one character per token: two too short once stripped, one not
Texts == {<<"h", "i">>, <<" ", "h", "i", " ">>, <<"p", "i", "n">>}

RECURSIVE Render(_)
\* the string a token sequence spells
Render(s) == IF s = <<>> THEN "" ELSE Head(s) \o Render(Tail(s))

RECURSIVE Split(_, _)
\* Python: s.split(sep)
Split(s, sep) ==
    IF ~Contains(s, sep) THEN <<s>>
    ELSE LET i == FirstIndex(s, sep)
         IN  <<SubSeq(s, 1, i - 1)>> \o Split(SubSeq(s, i + 1, Len(s)), sep)

\* part.split("{answer}", 1): the text before the first marker and all the
\* text after it
SplitOnce(part) ==
    LET i == FirstIndex(part, "{answer}")
    IN  [qa     |-> Strip(SubSeq(part, 1, i - 1)),
         answer |-> Strip(SubSeq(part, i + 1, Len(part)))]

\* parse_memories
parse_memories(text) ==
    IF text = <<>> THEN <<>>
    ELSE LET parts == SelectSeq(Split(text, "{qa}"), LAMBDA part : Contains(part, "{answer}"))
         IN  [k \in 1..Len(parts) |-> SplitOnce(parts[k])]

\* full_text = f"Q: {mem['qa']} A: {mem['answer']}"
FullText(mem) == "Q: " \o Render(mem.qa) \o " A: " \o Render(mem.answer)

\* an id that also depends on the time of the call
generate_memory_id_salted(content) == <<"md5", content, clock>>

\* generate_memory_id: the MD5 digest of the content (taken to be free of
\* collisions: equal digests only for equal contents)
generate_memory_id(content) == <<"md5", content>>

\* mem_id = self.generate_memory_id(full_text + user_id)
MemId(mem, user_id) == generate_memory_id(FullText(mem) \o user_id)

\* existing = self.collection.get(ids=[mem_id]); existing['ids']
ExistingIds(coll, id) == {f.id : f \in {g \in coll : g.id = id}}

\* collection.add without Chroma's check for an id that is already stored
CollectionAddBlind(coll, id, document, user_id, ts) ==
    coll \cup {[id |-> id, document |-> document, user_id |-> user_id, timestamp |-> ts]}

\* self.collection.add(ids=[mem_id], documents=[full_text], embeddings=...,
\* metadatas=[{"user_id": user_id, "timestamp": time.time()}]); Chroma keeps
\* the stored record when the id is already there
CollectionAdd(coll, id, document, user_id, ts) ==
    IF ExistingIds(coll, id) # {} THEN coll
    ELSE coll \cup {[id |-> id, document |-> document, user_id |-> user_id,
                     timestamp |-> ts]}

IdleWorker == [pc |-> "idle"]

\* return ""
EmptyContext == [header |-> "", lines |-> <<>>]

\* the last call was not a retrieve_context call
NotRetrieved ==
    [impl |-> "none", user_id |-> "", embedded |-> FALSE, results |-> <<>>,
     dist |-> <<>>, context |-> EmptyContext]

\* the replies of the extraction model: no reply, the empty reply, the
\* NO_MEMORY verdict (alone or next to a pair), text without a pair, one pair
\* and two pairs
Extractions ==
    { [kind |-> "none", v |-> <<>>],
      [kind |-> "text", v |-> <<>>],
      [kind |-> "text", v |-> <<"NO_MEMORY">>],
      [kind |-> "text", v |-> <<"{qa}", "q", "{answer}", "x", "NO_MEMORY">>],
      [kind |-> "text", v |-> <<"w">>],
      [kind |-> "text", v |-> <<"{qa}", " ", "q", "{answer}", "x", " ">>],
      [kind |-> "text", v |-> <<"{qa}", "q", "{answer}", "x2">>],
      [kind |-> "text", v |-> <<"w", "{qa}", "q", "{answer}", "x", "{qa}", "q", "{answer}", "y">>] }

\* no extraction result (yet)
NoExtraction == [kind |-> "pending", v |-> <<>>]

\* a worker that has returned
Returned(wk) == [wk EXCEPT !.pc = "done"]

\* the call record kept once the call has returned with an extraction result
CallRecord(wk) ==
    [user_id |-> wk.user_id, text |-> wk.text, extraction |-> wk.extraction,
     clean |-> wk.clean]

\* the end of one pass of `for mem in parsed`: the next pair, or the return
LoopNext(w, wk) ==
    IF Len(wk.todo) > 1
    THEN /\ workers' = [workers EXCEPT ![w] = [wk EXCEPT !.pc = "check", !.todo = Tail(wk.todo)]]
         /\ UNCHANGED completed
    ELSE /\ workers' = [workers EXCEPT ![w] = Returned([wk EXCEPT !.todo = <<>>])]
         /\ completed' = completed \cup {CallRecord(wk)}

\* store_memory is called: the short-input return, or the extraction request
StoreMemoryCall(w, user_id, text) ==
    /\ workers[w].pc \in {"idle", "done"}
    /\ nCalls < MaxCalls
    /\ nCalls' = nCalls + 1
    /\ LET wk == [pc |-> "extract", user_id |-> user_id, text |-> text,
                  extraction |-> NoExtraction, todo |-> <<>>, added |-> 0,
                  clean |-> TRUE, seen |-> completed]
       IN  workers' = [workers EXCEPT ![w] =
                          IF Len(Strip(text)) < 3 THEN Returned(wk) ELSE wk]
    /\ retrieved' = NotRetrieved
    /\ UNCHANGED <<collection, clock, completed>>
    /\ UNCHANGED <<histVars, coreVars, call, vault, karma_file>>

\* an exception that leaves store_memory and reaches its caller
Uncaught(wk) == [wk EXCEPT !.pc = "raised"]

\* except Exception as e: log(...): the exception ends the call, which returns
Caught(wk) == Returned(wk)

\* the extraction request raises: the outer except logs it and returns
MemExtractionFails(w) ==
    /\ workers[w].pc = "extract"
    /\ workers' = [workers EXCEPT ![w] = Caught(@)]
    /\ UNCHANGED <<collection, clock, completed, nCalls, retrieved>>
    /\ UNCHANGED <<histVars, coreVars, call, vault, karma_file>>

\* the extraction request answers: the NO_MEMORY return, or the parsed pairs
MemExtracted(w, e) ==
    /\ workers[w].pc = "extract"
    /\ LET wk == [workers[w] EXCEPT !.extraction = e]
           parsed == parse_memories(e.v)
       IN  IF e.v = <<>> \/ Contains(e.v, "NO_MEMORY") \/ parsed = <<>>
           THEN /\ workers' = [workers EXCEPT ![w] = Returned(wk)]
                /\ completed' = completed \cup {CallRecord(wk)}
           ELSE /\ workers' = [workers EXCEPT ![w] =
                                  [wk EXCEPT !.pc = "check", !.todo = parsed]]
                /\ UNCHANGED completed
    /\ UNCHANGED <<collection, clock, nCalls, retrieved>>
    /\ UNCHANGED <<histVars, coreVars, call, vault, karma_file>>

\* existing = self.collection.get(ids=[mem_id]); a stored id skips the pair
MemCheck(w) ==
    /\ workers[w].pc = "check"
    /\ LET wk == workers[w]
           id == MemId(Head(wk.todo), wk.user_id)
       IN  IF ExistingIds(collection, id) # {}
           THEN LoopNext(w, wk)
           ELSE /\ workers' = [workers EXCEPT ![w] = [wk EXCEPT !.pc = "add"]]
                /\ UNCHANGED completed
    /\ UNCHANGED <<collection, clock, nCalls, retrieved>>
    /\ UNCHANGED <<histVars, coreVars, call, vault, karma_file>>

\* get_embedding has answered: with an embedding the pair is added under the
\* current time, without one it is passed over
MemAdd(w, embedded) ==
    /\ workers[w].pc = "add"
    /\ LET wk == workers[w]
           mem == Head(wk.todo)
           coll == CollectionAdd(collection, MemId(mem, wk.user_id),
                                 FullText(mem), wk.user_id, clock)
       IN  IF embedded
           THEN /\ collection' = coll
                /\ clock' = IF coll = collection THEN clock ELSE clock + 1
                /\ LoopNext(w, [wk EXCEPT !.added = IF coll = collection THEN @ ELSE @ + 1])
           ELSE /\ UNCHANGED <<collection, clock>>
                /\ LoopNext(w, [wk EXCEPT !.clean = FALSE])
    /\ UNCHANGED <<nCalls, retrieved>>
    /\ UNCHANGED <<histVars, coreVars, call, vault, karma_file>>

\* the distances a query can have to the stored facts
Distances == 0..(THRESHOLD * DistScale)

\* dist < THRESHOLD, with the distance counted in steps of 1/DistScale
AcceptsUpToThreshold(dist) == dist <= THRESHOLD * DistScale

Accepts(dist) == dist < THRESHOLD * DistScale

\* the facts a query looks at when the where clause is left out
MatchingAnyUser(coll, user_id) == coll

\* where={"user_id": user_id}
Matching(coll, user_id) == {f \in coll : f.user_id = user_id}

Min(a, b) == IF a < b THEN a ELSE b

\* collection.query(n_results=MEMORY_RECALL_COUNT): the results Chroma can
\* return for the given distances, nearest first, ties in any order
QueryResults(facts, dist) ==
    LET n == Min(MEMORY_RECALL_COUNT, Cardinality(facts))
    IN  { r \in [1..n -> facts] :
            /\ \A i, j \in 1..n : i < j => r[i] # r[j] /\ dist[r[i]] <= dist[r[j]]
            /\ \A f \in facts : (\A i \in 1..n : r[i] # f) =>
                                    \A i \in 1..n : dist[r[i]] <= dist[f] }

RECURSIVE InsertByTs(_, _)
\* puts m after the entries that are at least as recent
InsertByTs(sorted, m) ==
    IF sorted = <<>> THEN <<m>>
    ELSE IF Head(sorted).ts >= m.ts THEN <<Head(sorted)>> \o InsertByTs(Tail(sorted), m)
    ELSE <<m>> \o sorted

RECURSIVE SortNewestFirst(_)
\* found_memories.sort(key=lambda x: x["ts"], reverse=True): stable
SortNewestFirst(found) ==
    IF found = <<>> THEN <<>>
    ELSE InsertByTs(SortNewestFirst(SubSeq(found, 1, Len(found) - 1)), found[Len(found)])

\* date_str: the day of the timestamp; all the timestamps followed here
\* fall on one day
DateOf(ts) == IF ts = 0 THEN "Unknown Date" ELSE "day"

\* the candidates of results, with distance and date, that pass the threshold
Found(r, dist) ==
    LET all == [i \in 1..Len(r) |-> [ts |-> r[i].timestamp, date |-> DateOf(r[i].timestamp),
                                     doc |-> r[i].document, dist |-> dist[r[i]]]]
    IN  SelectSeq(all, LAMBDA m : Accepts(m.dist))

\* MemoryEngine.retrieve_context after the query: filter, sort, render
EngineContext(r, dist) ==
    LET found == SortNewestFirst(Found(r, dist))
    IN  [header |-> IF found # <<>> THEN "remembers about you (recent first):" ELSE "",
         lines  |-> [i \in 1..Len(found) |-> [date |-> found[i].date, doc |-> found[i].doc]]]

\* Multimodal.retrieve_context after the query: filter and render in the
\* order of the results
MultimodalContext(r, dist) ==
    LET found == Found(r, dist)
    IN  [header |-> IF found # <<>> THEN "remembers about you:" ELSE "",
         lines  |-> [i \in 1..Len(found) |-> [date |-> "", doc |-> found[i].doc]]]

\* results = self.collection.query(...): the results a query of user_id can
\* have, each with the distances of its entries
Queries(user_id) ==
    UNION { { [results |-> r, dist |-> [i \in 1..Len(r) |-> dist[r[i]]], of |-> dist] :
                r \in QueryResults(Matching(collection, user_id), dist) } :
            dist \in [Matching(collection, user_id) -> Distances] }

\* MemoryEngine.retrieve_context
MemoryEngine_retrieve_context(user_id, embedded) ==
    /\ IF ~embedded
       THEN retrieved' = [NotRetrieved EXCEPT !.impl = "MemoryEngine", !.user_id = user_id]
       ELSE \E q \in Queries(user_id) :
               retrieved' = [impl |-> "MemoryEngine", user_id |-> user_id,
                             embedded |-> TRUE, results |-> q.results, dist |-> q.dist,
                             context |-> EngineContext(q.results, q.of)]
    /\ UNCHANGED <<collection, clock, workers, completed, nCalls>>
    /\ UNCHANGED <<histVars, coreVars, call, vault, karma_file>>

\* Multimodal.retrieve_context
Multimodal_retrieve_context(user_id, embedded) ==
    /\ IF ~embedded
       THEN retrieved' = [NotRetrieved EXCEPT !.impl = "Multimodal", !.user_id = user_id]
       ELSE \E q \in Queries(user_id) :
               retrieved' = [impl |-> "Multimodal", user_id |-> user_id,
                             embedded |-> TRUE, results |-> q.results, dist |-> q.dist,
                             context |-> MultimodalContext(q.results, q.of)]
    /\ UNCHANGED <<collection, clock, workers, completed, nCalls>>
    /\ UNCHANGED <<histVars, coreVars, call, vault, karma_file>>

-----------------------------------------------------------------------------
(* Multimodal.generate_text *)

\* the longest model reply followed, in tokens
MaxReplyLen == 2

ReplyTokens == {"{karma+}", "{karma-}", "{gen}", "{edit}", " ", "w", "previous"}

Replies == UNION {[1..n -> ReplyTokens] : n \in 0..MaxReplyLen}

\* what client.chat.completions.create can do: raise, answer with no
\* content, answer with a text
ModelOutcomes ==
    {[kind |-> "raise", v |-> <<>>], [kind |-> "none", v |-> <<>>]}
        \cup {[kind |-> "text", v |-> r] : r \in Replies}

\* the user texts of a request: one too short for memory extraction, one not
RequestTexts == {<<"h", "i">>, <<"p", "i", "n">>}

\* str(uuid.uuid4()) under image_dir: a path no earlier save has used
FreshPath(n) == "memories/images/" \o ToString(n) \o ".png"

\* _save_image_to_disk and the _update_last_images call after it: the new
\* path when the write succeeds, "" when it fails; the ring gets either
SaveAndTrack(li, files, n, u, written) ==
    LET path == IF written THEN FreshPath(n) ELSE ""
    IN  [last_images |-> update_last_images_store(li, u, path),
         image_files |-> IF written THEN files \cup {path} ELSE files,
         nextImage   |-> IF written THEN n + 1 ELSE n]

\* KARMA UPDATES: the first marker found decides, and only it is removed
KarmaScan(db, u, username, reply) ==
    IF Contains(reply, "{karma+}")
    THEN [karma_db |-> update_karma(db, u, 1, username),
          reply |-> Strip(Replace(reply, "{karma+}"))]
    ELSE IF Contains(reply, "{karma-}")
    THEN [karma_db |-> update_karma(db, u, -1, username),
          reply |-> Strip(Replace(reply, "{karma-}"))]
    ELSE [karma_db |-> db, reply |-> reply]

\* any(w in keywords.lower() for w in ["previous", "first", "old", "earlier"])
HasCue(keywords) ==
    \E w \in {"previous", "first", "old", "earlier"} : Contains(keywords, w)

\* the path the edit falls back to when the request carries no image
TargetPath(last_paths, keywords) ==
    IF Len(last_paths) >= 2 /\ HasCue(keywords) THEN last_paths[1]
    ELSE IF last_paths # <<>> THEN last_paths[Len(last_paths)]
    ELSE ""

\* the target taken without looking for it on disk
HasTargetUnchecked(has_image, last_paths, files, keywords) ==
    \/ has_image
    \/ TargetPath(last_paths, keywords) # ""

\* target_image_b64 is set: the input image, or a ring path that is not ""
\* and that _load_image_from_disk finds on disk
HasTarget(has_image, last_paths, files, keywords) ==
    \/ has_image
    \/ /\ TargetPath(last_paths, keywords) # ""
       /\ TargetPath(last_paths, keywords) \in files

\* the reply as it is when no fallback is substituted
NoFallback(final_reply, img) == final_reply

\* if not final_reply: "Here is your image." / "What?"
Fallback(final_reply, img) ==
    IF final_reply # <<>> THEN final_reply
    ELSE IF img # "" THEN <<"Here is your image.">>
    ELSE <<"What?">>

\* What the image action of a request did (history): which branch ran, how
\* the backend call ended, the images handed to edit_image, and the path
\* the produced image was saved under.
NoAction == [kind |-> "none", outcome |-> "not_called", images |-> <<>>, saved |-> ""]

GenAction(outcome, saved) ==
    [kind |-> "gen", outcome |-> outcome, images |-> <<>>, saved |-> saved]

EditAction(outcome, images) ==
    [kind |-> "edit", outcome |-> outcome, images |-> images, saved |-> ""]

\* target_image_b64: the input image, else the image loaded from TargetPath
EditTarget(has_image, last_paths, keywords) ==
    IF has_image THEN "input" ELSE TargetPath(last_paths, keywords)

\* a generation failure that leaves the text as it is
GenFailureReplySilent(cut, outcome) == cut

\* the text after a generation that gave no image ("no_image": None or an
\* error dict) or raised: the note is appended
GenFailureReply(cut, outcome) ==
    IF outcome = "no_image"
    THEN cut \o <<"\n[System: Failed to generate image]">>
    ELSE cut \o <<"\n[System: Error during image generation]">>

\* IMAGE GENERATION / EDITING: every way the trigger scan can end for the
\* reply left by the karma scan.  generate_image returns an image (which is
\* then saved, or not), returns None or an error, or raises.  img is "" for
\* None.
TriggerOutcomes(reply, u, has_image, li, files, n) ==
    LET gen_match  == Search(reply, "{gen}")
        edit_match == Search(reply, "{edit}")
        same(final, action) ==
            [final_reply |-> final, img |-> "", last_images |-> li,
             image_files |-> files, nextImage |-> n, action |-> action]
    IN  IF gen_match.matched
        THEN LET cut == CutMatch(reply, gen_match)
             IN  { LET t == SaveAndTrack(li, files, n, u, written)
                   IN  [final_reply |-> cut, img |-> "generated",
                        last_images |-> t.last_images, image_files |-> t.image_files,
                        nextImage |-> t.nextImage,
                        action |-> GenAction("image", IF written THEN FreshPath(n) ELSE "")]
                   : written \in BOOLEAN }
                 \cup { same(GenFailureReply(cut, outcome), GenAction(outcome, ""))
                        : outcome \in {"no_image", "raised"} }
        ELSE IF edit_match.matched
        THEN LET cut == CutMatch(reply, edit_match)
                 last_paths == get_last_images(li, u)
             IN  IF HasTarget(has_image, last_paths, files, edit_match.keywords)
                 \* edit_image is handed a str where it iterates a list of
                 \* strings: b64decode of the first character raises
                 THEN { same(cut \o <<"\n[System: Error during image edit]">>,
                             EditAction("raised",
                                 <<EditTarget(has_image, last_paths, edit_match.keywords)>>)) }
                 ELSE { same(cut \o <<"\n[System: I cannot edit the image because no image was provided/found in history.]">>,
                             EditAction("not_called", <<>>)) }
        ELSE { same(reply, NoAction) }

\* no request yet
NoRequest ==
    [kind |-> "none", user_id |-> "", model |-> [kind |-> "none", v |-> <<>>],
     karma_before |-> EmptyDict, response |-> <<>>, assistant_text |-> <<>>, img |-> "",
     has_image |-> FALSE, ring |-> <<>>, files |-> {}, action |-> NoAction,
     text |-> <<>>, input_path |-> "", appended |-> 0, stripped |-> <<>>]

\* nothing returned yet
NoResult == [kind |-> "none", response |-> <<>>, img |-> ""]

\* the user's message without the reference to the stored input image
UserMessageTextOnly(text, path) ==
    [role |-> "user", content |-> [kind |-> "parts", text |-> text, image_url |-> ""]]

\* a message as generate_text appends it: the user's parts (text, and the
\* stored path when there is one), or the assistant's text
UserMessage(text, path) ==
    [role |-> "user", content |-> [kind |-> "parts", text |-> text, image_url |-> path]]

AssistantMessage(text) ==
    [role |-> "assistant", content |-> [kind |-> "str", text |-> text, image_url |-> ""]]

\* generate_text up to its early return or to the _store_memory call
GenerateText(u, username, text, has_image, input_written, m) ==
    /\ req.kind = "none"
    /\ workers["main"].pc = "idle"
    /\ LET names == IF username # "" THEN Put(usernames, u, username) ELSE usernames
           h1 == get_history_store(histories, u)
           input == IF has_image
                    THEN SaveAndTrack(last_images, image_files, nextImage, u, input_written)
                    ELSE [last_images |-> last_images, image_files |-> image_files,
                          nextImage |-> nextImage]
           input_path == IF has_image /\ input_written THEN FreshPath(nextImage) ELSE ""
       IN  IF m.kind = "raise"
           THEN /\ usernames' = names
                /\ histories' = h1
                /\ last_images' = input.last_images
                /\ image_files' = input.image_files
                /\ nextImage' = input.nextImage
                /\ req' = [NoRequest EXCEPT !.kind = "returned", !.user_id = u, !.model = m,
                              !.karma_before = karma_db, !.has_image = has_image,
                              !.ring = get_last_images(last_images, u),
                              !.files = input.image_files,
                              !.text = text, !.input_path = input_path,
                              !.appended = Len(appendLog[u]),
                              !.response = <<"Error communicating with AI: ", "e">>]
                /\ result' = [NoResult EXCEPT !.kind = "response",
                                 !.response = <<"Error communicating with AI: ", "e">>]
                /\ UNCHANGED <<karma_db, history_file, appendLog, workers>>
           ELSE LET k == KarmaScan(karma_db, u, username, m.v)
                IN  \E o \in TriggerOutcomes(k.reply, u, has_image, input.last_images,
                                             input.image_files, input.nextImage) :
                       LET final_reply == Fallback(o.final_reply, o.img)
                           assistant_text ==
                               IF o.img # "" THEN final_reply \o <<"\n[Generated Image]">>
                               ELSE final_reply
                           user_msg == UserMessage(text, input_path)
                           asst_msg == AssistantMessage(assistant_text)
                           h2 == Put(h1, u, DequeAppend(DequeAppend(h1[u], user_msg), asst_msg))
                           wk == [pc |-> "extract", user_id |-> u, text |-> text,
                                  extraction |-> NoExtraction, todo |-> <<>>, added |-> 0,
                                  clean |-> TRUE, seen |-> completed]
                       IN  /\ usernames' = names
                           /\ karma_db' = k.karma_db
                           /\ last_images' = o.last_images
                           /\ image_files' = o.image_files
                           /\ nextImage' = o.nextImage
                           /\ histories' = h2
                           /\ appendLog' = [appendLog EXCEPT
                                               ![u] = Append(Append(@, user_msg), asst_msg)]
                           /\ history_file' = SaveDocument(h2, names, o.last_images)
                           /\ workers' = [workers EXCEPT !["main"] =
                                             IF Len(Strip(text)) < 3 THEN Returned(wk) ELSE wk]
                           /\ req' = [kind |-> "stored", user_id |-> u, model |-> m,
                                      karma_before |-> karma_db, response |-> final_reply,
                                      assistant_text |-> assistant_text, img |-> o.img,
                                      has_image |-> has_image,
                                      ring |-> get_last_images(last_images, u),
                                      files |-> input.image_files,
                                      action |-> o.action,
                                      text |-> text, input_path |-> input_path,
                                      appended |-> Len(appendLog[u]),
                                      stripped |-> o.final_reply]
                           /\ UNCHANGED result
    /\ lastOp' = [op |-> "generate_text"]
    /\ nOps' = Counted
    /\ nRequests' = nRequests + 1
    /\ nCalls' = IF m.kind = "raise" THEN nCalls ELSE nCalls + 1
    /\ karma_file' = IF m.kind = "raise" THEN karma_file
                     ELSE Complete(KarmaScan(karma_db, u, username, m.v).karma_db)
    /\ UNCHANGED <<collection, clock, completed, retrieved, call, vault>>

\* generate_text returns once _store_memory has returned
GenerateTextReturn ==
    /\ req.kind = "stored"
    /\ workers["main"].pc = "done"
    /\ result' = [kind |-> "response", response |-> req.response, img |-> req.img]
    /\ req' = [req EXCEPT !.kind = "returned"]
    /\ UNCHANGED <<karma_db, image_files, nextImage, nRequests>>
    /\ UNCHANGED <<histVars, memVars, call, vault, karma_file>>

-----------------------------------------------------------------------------
(* Parts of the state a specification leaves alone *)

CoreIdle ==
    /\ karma_db = EmptyDict
    /\ karma_file = Complete(karma_db)
    /\ image_files = {}
    /\ nextImage = 1
    /\ req = NoRequest
    /\ result = NoResult
    /\ nRequests = 0

\* no component method called yet
NoCall == [op |-> "none"]

CallIdle == call = NoCall /\ vault = EmptyDict

MemIdle ==
    /\ collection = {}
    /\ clock = 1
    /\ workers = [w \in WorkerIds |-> IdleWorker]
    /\ completed = {}
    /\ nCalls = 0
    /\ retrieved = NotRetrieved

-----------------------------------------------------------------------------
(* SpecBound: add_message calls on a store constructed with no file *)

InitBound == HistoryInit(EmptyDict) /\ CoreIdle /\ MemIdle /\ CallIdle

NextBound == \E c \in UserIds, role \in Roles : AddMessage(c, role)

SpecBound == InitBound /\ [][NextBound]_vars

\* C1: a context's message list never holds more than HISTORY_MAXLEN entries,
\* and it is exactly the most recent HISTORY_MAXLEN of the messages appended
\* to that context, in the order they were appended (oldest first).
HistoryBounded ==
    \A c \in UserIds :
        /\ Len(Get(histories, c, <<>>)) <= HISTORY_MAXLEN
        /\ Get(histories, c, <<>>) = LastN(appendLog[c], HISTORY_MAXLEN)

\* C1 witness: a context that received HISTORY_MAXLEN + 5 appends and holds
\* HISTORY_MAXLEN of them.
HistoryBoundedWitness ==
    \E c \in UserIds :
        /\ Len(appendLog[c]) = HISTORY_MAXLEN + ExtraAppends
        /\ Len(histories[c]) = HISTORY_MAXLEN

-----------------------------------------------------------------------------
(* SpecStore: the image ring across pushes, saves and restarts *)

InitStore == (\E doc \in InitialFiles : HistoryInit(doc)) /\ CoreIdle /\ MemIdle /\ CallIdle

NextStore ==
    \/ \E c \in UserIds, path \in Paths : UpdateLastImages(c, path)
    \/ \E c \in UserIds : GetHistory(c)
    \/ Save
    \/ Restart

SpecStore == InitStore /\ [][NextStore]_vars

\* C2: every context's image ring holds at most CONTEXT_LENGTH_IMAGE paths, and
\* a push leaves the ring equal to the last CONTEXT_LENGTH_IMAGE elements of
\* the previous ring followed by the pushed path (most recent last).
RingBounded ==
    /\ \A c \in UserIds :
          Len(get_last_images(last_images, c)) <= CONTEXT_LENGTH_IMAGE
    /\ lastOp.op = "update_last_images" =>
          get_last_images(last_images, lastOp.c)
            = LastN(Append(lastOp.before, lastOp.path), CONTEXT_LENGTH_IMAGE)

\* C2 witness: a push onto a full ring evicted its oldest entry.
RingBoundedWitness ==
    /\ lastOp.op = "update_last_images"
    /\ Len(lastOp.before) = CONTEXT_LENGTH_IMAGE
    /\ Len(last_images[lastOp.c]) = CONTEXT_LENGTH_IMAGE
    /\ last_images[lastOp.c][1] = lastOp.before[2]

-----------------------------------------------------------------------------------------------------------------------------------------------------
(* SpecRoundTrip: save and reload of stores built by set_username,         *)
(* add_message and update_last_images                                      *)

InitRoundTrip == InitStore

NextRoundTrip ==
    \/ \E c \in UserIds, name \in Names : nOps < MaxOps /\ SetUsername(c, name)
    \/ \E c \in UserIds, role \in Roles : nOps < MaxOps /\ AddMessage(c, role)
    \/ \E c \in UserIds, path \in Paths : nOps < MaxOps /\ UpdateLastImages(c, path)
    \/ nOps < MaxOps /\ Save
    \/ nOps < MaxOps /\ Restart

SpecRoundTrip == InitRoundTrip /\ [][NextRoundTrip]_vars

\* what a fresh instance constructed on the current file answers for a context
Reloaded(c) ==
    Observed(LoadHistories(history_file), LoadUsernames(history_file),
             LoadLastImages(history_file), c)

\* C3 (as claimed): right after save, a fresh instance loading the snapshot
\* answers with identical messages, image ring and display name for every
\* context that has a message list, an image ring or a display name; a context
\* stored as a legacy bare list loads with the same messages.
RoundTripAllContexts ==
    /\ lastOp.op = "save" =>
          \A c \in (DOMAIN histories) \cup (DOMAIN last_images) \cup (DOMAIN usernames) :
              Reloaded(c) = Observed(histories, usernames, last_images, c)
    /\ lastOp.op \in {"init", "load"} =>
          \A c \in DOMAIN history_file :
              history_file[c].shape = "list" =>
                  Get(histories, c, <<>>) = history_file[c].messages

\* The part of C3 the code keeps: the contexts that have a message list.
RoundTripContextsWithHistory ==
    /\ lastOp.op = "save" =>
          \A c \in DOMAIN histories :
              Reloaded(c) = Observed(histories, usernames, last_images, c)
    /\ lastOp.op \in {"init", "load"} =>
          \A c \in DOMAIN history_file :
              history_file[c].shape = "list" =>
                  Get(histories, c, <<>>) = history_file[c].messages

-----------------------------------------------------------------------------
(* SpecMemStore: store_memory calls of two threads, interleaved *)

InitMemStore == HistoryInit(EmptyDict) /\ CoreIdle /\ MemIdle /\ CallIdle

NextMemStore ==
    \/ \E w \in {"t1", "t2"}, u \in UserIds, text \in Texts : StoreMemoryCall(w, u, text)
    \/ \E w \in {"t1", "t2"} : MemExtractionFails(w)
    \/ \E w \in {"t1", "t2"}, e \in Extractions : MemExtracted(w, e)
    \/ \E w \in {"t1", "t2"} : MemCheck(w)
    \/ \E w \in {"t1", "t2"}, embedded \in BOOLEAN : MemAdd(w, embedded)

SpecMemStore == InitMemStore /\ [][NextMemStore]_vars

\* the call of worker wk repeats a call that had returned before it started
Repeats(wk, c) ==
    /\ c \in wk.seen
    /\ c.user_id = wk.user_id /\ c.text = wk.text /\ c.extraction = wk.extraction

ExtractionSkipped ==
    \A w \in WorkerIds :
        workers[w].pc # "idle" =>
            /\ Len(RStrip(LStrip(workers[w].text))) < 3
                  => /\ workers[w].pc = "done"
                     /\ workers[w].extraction = NoExtraction
                     /\ workers[w].added = 0
            /\ workers[w].extraction.kind # "pending"
               /\ (workers[w].extraction.v = <<>> \/ workers[w].extraction.v = <<"NO_MEMORY">>)
                  => /\ workers[w].pc = "done"
                     /\ workers[w].added = 0

ExtractionSkippedWitness ==
    /\ workers["t1"].pc = "done"
    /\ workers["t1"].text = <<" ", "h", "i", " ">>
    /\ workers["t1"].extraction = NoExtraction
    /\ workers["t2"].pc = "done"
    /\ workers["t2"].extraction.v = <<"NO_MEMORY">>
    /\ workers["t2"].added = 0
    /\ collection = {}

-----------------------------------------------------------------------------
(* SpecRetrieve: one thread that calls store_memory and retrieve_context, one
   call after the other *)

\* thread w is not inside a store_memory call, and the call before was not
\* a retrieve_context call (which would see the same collection again)
Returns(w) == workers[w].pc \in {"idle", "done"} /\ retrieved.impl = "none"

InitRetrieve == HistoryInit(EmptyDict) /\ CoreIdle /\ MemIdle /\ CallIdle

NextRetrieve ==
    \/ \E u \in UserIds, text \in Texts : StoreMemoryCall("main", u, text)
    \/ MemExtractionFails("main")
    \/ \E e \in Extractions : MemExtracted("main", e)
    \/ MemCheck("main")
    \/ \E embedded \in BOOLEAN : MemAdd("main", embedded)
    \/ \E u \in UserIds, embedded \in BOOLEAN :
          Returns("main") /\ MemoryEngine_retrieve_context(u, embedded)
    \/ \E u \in UserIds, embedded \in BOOLEAN :
          Returns("main") /\ Multimodal_retrieve_context(u, embedded)

SpecRetrieve == InitRetrieve /\ [][NextRetrieve]_vars

\* the documents the last retrieve_context call rendered
Rendered == {retrieved.context.lines[k].doc : k \in 1..Len(retrieved.context.lines)}

\* the results of the last query whose distance is strictly below THRESHOLD
BelowThreshold == {i \in 1..Len(retrieved.results) : retrieved.dist[i] < THRESHOLD * DistScale}

\* C7: every rendered document is a query result with a distance strictly
\* below THRESHOLD, a result at or above THRESHOLD is not rendered, and the
\* context is the empty string when no result is below THRESHOLD or the
\* query could not be embedded.
ThresholdExclusion ==
    retrieved.impl # "none" =>
        /\ \A d \in Rendered : \E i \in BelowThreshold : retrieved.results[i].document = d
        /\ \A i \in 1..Len(retrieved.results) :
              retrieved.dist[i] >= THRESHOLD * DistScale
                 => retrieved.results[i].document \notin Rendered
        /\ (~retrieved.embedded \/ BelowThreshold = {}) => retrieved.context = EmptyContext

ThresholdExclusionWitness ==
    /\ retrieved.impl = "MemoryEngine"
    /\ Len(retrieved.results) = 2
    /\ \E i \in 1..2 : retrieved.dist[i] = THRESHOLD * DistScale
    /\ \E i \in 1..2 : retrieved.dist[i] < THRESHOLD * DistScale
    /\ Len(retrieved.context.lines) = 1

ThresholdEmptyWitness ==
    /\ retrieved.impl = "MemoryEngine"
    /\ retrieved.embedded
    /\ Len(retrieved.results) = 2
    /\ BelowThreshold = {}
    /\ retrieved.context = EmptyContext

\* where a document stands in the rendered lines
LineOf(d) == CHOOSE k \in 1..Len(retrieved.context.lines) : retrieved.context.lines[k].doc = d

\* among the accepted results of one call, the more recent is rendered first
NewestFirst ==
    \A i, j \in BelowThreshold :
        retrieved.results[i].timestamp > retrieved.results[j].timestamp
           => LineOf(retrieved.results[i].document) < LineOf(retrieved.results[j].document)

\* C8 as claimed: of two results of a retrieve_context call that are both
\* below the threshold, the one with the larger timestamp is rendered
\* earlier, whatever their distances.
RecencyOverSimilarity == retrieved.impl # "none" => NewestFirst

\* the same for MemoryEngine.retrieve_context alone
RecencyOverSimilarityMemoryEngine == retrieved.impl = "MemoryEngine" => NewestFirst

\* C10: every document rendered by retrieve_context(query, u) is the
\* document of a query result stored by a store_memory call for user u, and
\* no result stored for another user is rendered.
NeverCrossUser ==
    retrieved.impl # "none" =>
        /\ \A d \in Rendered :
              \E f \in collection : f.document = d /\ f.user_id = retrieved.user_id
        /\ \A i \in 1..Len(retrieved.results) :
              retrieved.results[i].document \in Rendered
                 => retrieved.results[i].user_id = retrieved.user_id

NeverCrossUserWitness ==
    /\ retrieved.impl = "MemoryEngine"
    /\ Len(retrieved.context.lines) >= 1
    /\ \E f \in collection :
          /\ f.user_id # retrieved.user_id
          /\ f.document \notin Rendered

-----------------------------------------------------------------------------
(* SpecCore: one generate_text request, on the stores a restart can find *)

KarmaRecord(score, username) ==
    [f \in {"score", "username"} |-> IF f = "score" THEN score ELSE username]

\* karma.json: absent, or holding a legacy int and a dict with a summary
KarmaFiles ==
    { EmptyDict,
      [u \in UserIds |-> IF u = "1" THEN LegacyScore(2)
                         ELSE KarmaDict(Put(KarmaRecord(-1, "amy"), "summary", "s"))] }

\* chat_history.json of one earlier turn with its image ring
EarlierTurns ==
    [c \in {"1"} |->
        DictEntry([kind |-> "str", v |-> "amy"],
                  <<UserMessage(<<"h", "i">>, "p1"), AssistantMessage(<<"w">>)>>,
                  [kind |-> "list", v |-> <<"p1", "p2">>])]

\* the document of a context whose image ring is full
FullRingTurns ==
    [c \in {"1"} |->
        DictEntry([kind |-> "str", v |-> "amy"],
                  <<UserMessage(<<"h", "i">>, "p1"), AssistantMessage(<<"w">>)>>,
                  [kind |-> "list", v |-> <<"p1", "p2", "p3">>])]

\* chat_history.json and the image directory: a fresh install, an earlier
\* turn with both ring images on disk, the same with the older one deleted,
\* the same with both deleted, and a full ring with its images on disk
CoreFiles ==
    { [doc |-> EmptyDict, files |-> {}],
      [doc |-> EarlierTurns, files |-> {"p1", "p2"}],
      [doc |-> EarlierTurns, files |-> {"p2"}],
      [doc |-> EarlierTurns, files |-> {}],
      [doc |-> FullRingTurns, files |-> {"p1", "p2", "p3"}] }

\* the extraction replies followed after a request
CoreExtractions ==
    { [kind |-> "text", v |-> <<"NO_MEMORY">>],
      [kind |-> "text", v |-> <<"{qa}", "q", "{answer}", "x">>] }

InitCore ==
    /\ \E f \in CoreFiles : HistoryInit(f.doc) /\ image_files = f.files
    /\ \E k \in KarmaFiles : karma_db = k
    /\ karma_file = Complete(karma_db)
    /\ nextImage = 1
    /\ req = NoRequest
    /\ result = NoResult
    /\ nRequests = 0
    /\ MemIdle
    /\ CallIdle

NextCore ==
    \/ /\ req.kind = "none"
       /\ \E u \in UserIds, username \in Names \cup {""}, text \in RequestTexts,
             has_image \in BOOLEAN, input_written \in BOOLEAN, m \in ModelOutcomes :
             GenerateText(u, username, text, has_image, input_written, m)
    \/ MemExtractionFails("main")
    \/ \E e \in CoreExtractions : MemExtracted("main", e)
    \/ MemCheck("main")
    \/ \E embedded \in BOOLEAN : MemAdd("main", embedded)
    \/ GenerateTextReturn

SpecCore == InitCore /\ [][NextCore]_vars

\* the score read from a karma store: a legacy int, a dict's score, or 0
ScoreOf(db, u) ==
    IF u \notin DOMAIN db THEN 0
    ELSE IF db[u].kind = "int" THEN db[u].v
    ELSE db[u].d["score"]

\* the model answered the request with this reply
Answered == req.kind # "none" /\ req.model.kind = "text"

\* the records of everyone but the speaker are as they were
OthersUntouched ==
    \A v \in UserIds \ {req.user_id} :
        /\ v \in DOMAIN karma_db <=> v \in DOMAIN req.karma_before
        /\ v \in DOMAIN karma_db => karma_db[v] = req.karma_before[v]

MarkerTokens == {"{karma+}", "{karma-}", "{gen}", "{edit}"}

\* C5 as claimed: whatever the model replies, neither the text returned to
\* the caller nor the assistant text appended to the history holds one of
\* the markers {karma+}, {karma-}, {gen}, {edit}.
MarkersStripped ==
    Answered =>
        /\ \A t \in MarkerTokens : ~Contains(req.response, t)
        /\ \A t \in MarkerTokens : ~Contains(req.assistant_text, t)

-----------------------------------------------------------------------------
(* SpecParse: parse_memories on every short extraction reply *)

\* the longest extraction reply parsed, in tokens
MaxParseLen == 4

ParseTokens == {"{qa}", "{answer}", " ", "q"}

ParseTexts == UNION {[1..n -> ParseTokens] : n \in 0..MaxParseLen}

\* a call of parse_memories
ParseMemories(text) ==
    /\ call' = [op |-> "parse_memories", text |-> text, value |-> parse_memories(text)]
    /\ UNCHANGED <<histVars, coreVars, memVars, vault, karma_file>>

InitParse == HistoryInit(EmptyDict) /\ CoreIdle /\ MemIdle /\ CallIdle

NextParse == \E text \in ParseTexts : ParseMemories(text)

SpecParse == InitParse /\ [][NextParse]_vars

\* how often token t occurs in s
Occurrences(s, t) == Len(SelectSeq(s, LAMBDA x : x = t))

\* the segments of a reply that make a well-formed pair: the answer marker
\* exactly once, text on both sides of it
WellFormedSegments(text) ==
    SelectSeq(Split(text, "{qa}"),
              LAMBDA part : /\ Occurrences(part, "{answer}") = 1
                            /\ Strip(SubSeq(part, 1, FirstIndex(part, "{answer}") - 1)) # <<>>
                            /\ Strip(SubSeq(part, FirstIndex(part, "{answer}") + 1, Len(part))) # <<>>)

\* C11 as claimed: parse_memories returns exactly the well-formed pairs of
\* the reply, in order: a segment without the answer marker, with the marker
\* more than once, or with an empty question or answer is left out.
MalformedPairsDropped ==
    call.op = "parse_memories" =>
        LET good == WellFormedSegments(call.text)
        IN  /\ Len(call.value) = Len(good)
            /\ \A k \in 1..Len(good) :
                  /\ call.value[k].qa = Strip(SubSeq(good[k], 1, FirstIndex(good[k], "{answer}") - 1))
                  /\ call.value[k].answer =
                        Strip(SubSeq(good[k], FirstIndex(good[k], "{answer}") + 1, Len(good[k])))

\* what does hold: segments without the answer marker are left out, and every
\* segment with one is returned
SegmentsWithoutAnswerDropped ==
    call.op = "parse_memories" =>
        Len(call.value) = Len(SelectSeq(Split(call.text, "{qa}"),
                                        LAMBDA part : Occurrences(part, "{answer}") >= 1))

-----------------------------------------------------------------------------
(* KarmaManager, and SpecKarma: its calls and Multimodal.update_karma on the *)
(* stores a restart can find                                                 *)

\* the literal 5 of update_user_summary: the shortest user text summarised,
\* and the length a new summary must exceed
SummaryMinLen == 5

\* KarmaManager.get_info
get_info(db, u) ==
    IF u \in DOMAIN db /\ db[u].kind = "int" THEN KarmaRecord(db[u].v, "Unknown")
    ELSE IF u \in DOMAIN db /\ db[u].kind = "dict" THEN db[u].d
    ELSE KarmaRecord(0, "Unknown")

\* KarmaManager.update_score: the record and the returned score
update_score(db, u, change, username) ==
    LET current_info == get_info(db, u)
        new_score == Get(current_info, "score", 0) + change
        scored == Put(current_info, "score", new_score)
        named == IF username # "" THEN Put(scored, "username", username) ELSE scored
    IN  [karma_db |-> Put(db, u, KarmaDict(named)), value |-> new_score]

\* set_score with a record built anew from the score and the name
set_score_fresh(db, u, score) ==
    [karma_db |-> Put(db, u, KarmaDict(KarmaRecord(score, Get(get_info(db, u), "username", "Unknown")))),
     value |-> score]

\* KarmaManager.set_score
set_score(db, u, score) ==
    [karma_db |-> Put(db, u, KarmaDict(Put(get_info(db, u), "score", score))),
     value |-> score]

\* what the summarization call can do: raise, answer with no content, answer
\* with a text (one character per token)
SummaryOutcomes ==
    { [kind |-> "raise", v |-> <<>>],
      [kind |-> "none", v |-> <<>>],
      [kind |-> "text", v |-> <<>>],
      [kind |-> "text", v |-> <<" ", "l", "i", "k", "e", "s", " ">>],
      [kind |-> "text", v |-> <<"l", "i", "k", "e", "s", "!", " ">>],
      [kind |-> "text", v |-> <<"k", "n", "o", "w", "s", "T", "L", "A">>] }

\* the user texts of update_user_summary: 4, 5 and 6 characters
SummaryTexts == {<<"h", "i", "!", "!">>, <<"h", "e", "l", "l", "o">>, <<" ", "l", "i", "k", "e", " ">>}

\* a summary replaced however short the turn or the new text
update_user_summary_always(db, u, user_text, outcome, now) ==
    IF outcome.kind # "text" THEN db
    ELSE Put(db, u, KarmaDict(Put(Put(get_info(db, u), "summary", Strip(outcome.v)),
                                  "last_interaction", now)))

\* KarmaManager.update_user_summary
update_user_summary(db, u, user_text, outcome, now) ==
    LET current_info == get_info(db, u)
        current_summary == Get(current_info, "summary", <<"No summary yet.">>)
        new_summary == Strip(outcome.v)
    IN  IF Len(user_text) < SummaryMinLen THEN db
        ELSE IF outcome.kind # "text" \/ outcome.v = <<>> THEN db
        ELSE IF Len(new_summary) > SummaryMinLen /\ new_summary # current_summary
        THEN Put(db, u, KarmaDict(Put(Put(current_info, "summary", new_summary),
                                      "last_interaction", now)))
        ELSE db

\* karma.json: absent, or holding a legacy int and a dict with a summary
KarmaStores ==
    { EmptyDict,
      [u \in UserIds |->
          IF u = "1" THEN LegacyScore(2)
          ELSE KarmaDict(Put(KarmaRecord(-1, "amy"), "summary",
                             <<"l", "i", "k", "e", "s", "!">>))] }

Deltas == {-1, 1, 3}
Scores == {0, 7}

KarmaManager_update_score(u, change, username) ==
    /\ karma_db' = update_score(karma_db, u, change, username).karma_db
    /\ call' = [op |-> "update_score", user_id |-> u, change |-> change,
                username |-> username, before |-> karma_db,
                value |-> update_score(karma_db, u, change, username).value]
    /\ nOps' = Counted
    /\ UNCHANGED <<histories, usernames, last_images, history_file, appendLog, lastOp>>
    /\ karma_file' = Complete(karma_db')
    /\ UNCHANGED <<image_files, nextImage, req, result, nRequests, memVars, vault>>

Multimodal_update_karma(u, change, username) ==
    /\ karma_db' = update_karma(karma_db, u, change, username)
    /\ call' = [op |-> "update_karma", user_id |-> u, change |-> change,
                username |-> username, before |-> karma_db,
                value |-> Get(get_karma_info(karma_db, u), "score", 0) + change]
    /\ nOps' = Counted
    /\ UNCHANGED <<histories, usernames, last_images, history_file, appendLog, lastOp>>
    /\ karma_file' = Complete(karma_db')
    /\ UNCHANGED <<image_files, nextImage, req, result, nRequests, memVars, vault>>

KarmaManager_set_score(u, score) ==
    /\ karma_db' = set_score(karma_db, u, score).karma_db
    /\ call' = [op |-> "set_score", user_id |-> u, score |-> score, before |-> karma_db,
                value |-> set_score(karma_db, u, score).value]
    /\ nOps' = Counted
    /\ UNCHANGED <<histories, usernames, last_images, history_file, appendLog, lastOp>>
    /\ karma_file' = Complete(karma_db')
    /\ UNCHANGED <<image_files, nextImage, req, result, nRequests, memVars, vault>>

KarmaManager_update_user_summary(u, user_text, outcome) ==
    /\ karma_db' = update_user_summary(karma_db, u, user_text, outcome, clock)
    /\ call' = [op |-> "update_user_summary", user_id |-> u, user_text |-> user_text,
                outcome |-> outcome, before |-> karma_db, value |-> "None"]
    /\ nOps' = Counted
    /\ UNCHANGED <<histories, usernames, last_images, history_file, appendLog, lastOp>>
    /\ karma_file' = Complete(karma_db')
    /\ UNCHANGED <<image_files, nextImage, req, result, nRequests, memVars, vault>>

InitKarma ==
    /\ HistoryInit(EmptyDict)
    /\ \E k \in KarmaStores : karma_db = k
    /\ karma_file = Complete(karma_db)
    /\ image_files = {}
    /\ nextImage = 1
    /\ req = NoRequest
    /\ result = NoResult
    /\ nRequests = 0
    /\ MemIdle
    /\ CallIdle

NextKarma ==
    \/ /\ nOps < MaxKarmaOps
       /\ \E u \in UserIds, change \in Deltas, username \in Names \cup {""} :
             KarmaManager_update_score(u, change, username)
    \/ /\ nOps < MaxKarmaOps
       /\ \E u \in UserIds, change \in Deltas, username \in Names \cup {""} :
             Multimodal_update_karma(u, change, username)
    \/ /\ nOps < MaxKarmaOps
       /\ \E u \in UserIds, score \in Scores : KarmaManager_set_score(u, score)
    \/ /\ nOps < MaxKarmaOps
       /\ \E u \in UserIds, user_text \in SummaryTexts, outcome \in SummaryOutcomes :
             KarmaManager_update_user_summary(u, user_text, outcome)

SpecKarma == InitKarma /\ [][NextKarma]_vars

\* the display name read from a karma store
NameOf(db, u) ==
    IF u \in DOMAIN db /\ db[u].kind = "dict" THEN Get(db[u].d, "username", "Unknown")
    ELSE "Unknown"

HasSummary(db, u) ==
    u \in DOMAIN db /\ db[u].kind = "dict" /\ "summary" \in DOMAIN db[u].d

\* the persona summary of u is the same in both stores
SameSummary(db1, db2, u) ==
    /\ HasSummary(db1, u) <=> HasSummary(db2, u)
    /\ HasSummary(db1, u) => db1[u].d["summary"] = db2[u].d["summary"]

\* what the claim says of one adjusting call
Adjusted ==
    /\ call.value = ScoreOf(call.before, call.user_id) + call.change
    /\ ScoreOf(karma_db, call.user_id) = call.value
    /\ NameOf(karma_db, call.user_id) =
          IF call.username # "" THEN call.username ELSE NameOf(call.before, call.user_id)
    /\ SameSummary(karma_db, call.before, call.user_id)

\* C13 as claimed: an adjusting call (KarmaManager.update_score or
\* Multimodal.update_karma) returns and stores the previous score (0 for an
\* unseen user) plus the change, replaces the display name only when one is
\* given, and leaves the persona summary as it was.
AdjustResult == call.op \in {"update_score", "update_karma"} => Adjusted

\* the same for KarmaManager.update_score alone
AdjustResultKarmaManager == call.op = "update_score" => Adjusted

\* the record of v is the same in both stores
SameRecord(db1, db2, v) ==
    /\ v \in DOMAIN db1 <=> v \in DOMAIN db2
    /\ v \in DOMAIN db1 =>
          /\ db1[v].kind = db2[v].kind
          /\ db1[v].kind = "int" => db1[v].v = db2[v].v
          /\ db1[v].kind = "dict" =>
                /\ DOMAIN db1[v].d = DOMAIN db2[v].d
                /\ \A f \in DOMAIN db1[v].d : db1[v].d[f] = db2[v].d[f]

\* C14: set_score(user_id, score) returns score and makes it the stored
\* score, and leaves the user's persona summary and display name, and every
\* other user's record, as they were.
SetPreservesRecord ==
    call.op = "set_score" =>
        /\ call.value = call.score
        /\ ScoreOf(karma_db, call.user_id) = call.score
        /\ SameSummary(karma_db, call.before, call.user_id)
        /\ NameOf(karma_db, call.user_id) = NameOf(call.before, call.user_id)
        /\ \A v \in UserIds \ {call.user_id} : SameRecord(karma_db, call.before, v)

SetPreservesRecordWitness ==
    /\ call.op = "set_score"
    /\ call.user_id = "21"
    /\ call.score = 7
    /\ ScoreOf(call.before, "21") = -1
    /\ HasSummary(karma_db, "21")
    /\ NameOf(karma_db, "21") = "amy"
    /\ ScoreOf(karma_db, "21") = 7

\* the summary update_user_summary compares the new text with
CurrentSummary(db, u) ==
    IF HasSummary(db, u) THEN db[u].d["summary"] ELSE <<"No summary yet.">>

\* the conditions under which a call may replace the summary
MayRefresh ==
    /\ Len(call.user_text) >= SummaryMinLen
    /\ call.outcome.kind = "text"
    /\ call.outcome.v # <<>>
    /\ Len(RStrip(LStrip(call.outcome.v))) > SummaryMinLen
    /\ RStrip(LStrip(call.outcome.v)) # CurrentSummary(call.before, call.user_id)

\* C15: update_user_summary changes the stored summary only when the user
\* text has at least 5 characters, the summarization call answered with a
\* non-empty text, and the stripped text is longer than 5 characters and
\* differs from the current summary; otherwise, a failing call included, it
\* returns normally with every record as it was.
SummaryRefresh ==
    call.op = "update_user_summary" =>
        /\ ~SameSummary(karma_db, call.before, call.user_id) => MayRefresh
        /\ ~MayRefresh => \A v \in UserIds : SameRecord(karma_db, call.before, v)
        /\ call.value = "None"

SummaryRefreshWitness ==
    /\ call.op = "update_user_summary"
    /\ call.user_id = "21"
    /\ MayRefresh
    /\ CurrentSummary(call.before, "21") = <<"l", "i", "k", "e", "s", "!">>
    /\ CurrentSummary(karma_db, "21") = <<"k", "n", "o", "w", "s", "T", "L", "A">>
    /\ NameOf(karma_db, "21") = "amy"
    /\ ScoreOf(karma_db, "21") = -1

(***************************************************************************)
(* ImageHandler: images on disk (components/image_handler.py).             *)
(*                                                                         *)
(* An image travels as base64 text and lies on disk as bytes.  b64decode   *)
(* discards characters outside the alphabet and raises on a bad length;    *)
(* b64encode writes the canonical text of the bytes, so the text that is   *)
(* loaded is not always the text that was saved.                           *)
(***************************************************************************)
MaxSaves == 2

B64Data == {"aGk=", "aGk=\n", "eW8=", "a"}

ImageBytes == {"hi", "yo", ""}

NoBytes == [ok |-> FALSE, bytes |-> ""]

b64decode(data) ==
    CASE data = "aGk="   -> [ok |-> TRUE, bytes |-> "hi"]
      [] data = "aGk=\n" -> [ok |-> TRUE, bytes |-> "hi"]
      [] data = "eW8="   -> [ok |-> TRUE, bytes |-> "yo"]
      [] data = ""       -> [ok |-> TRUE, bytes |-> ""]
      [] OTHER           -> NoBytes

b64encode(bytes) ==
    CASE bytes = "hi" -> "aGk="
      [] bytes = "yo" -> "eW8="
      [] OTHER        -> ""

\* What the file system does to one save: the file cannot be opened, it is
\* opened and the write fails, or it is written.
DiskOutcomes == {"open_fails", "write_fails", "written"}

\* How a call ends: with a string, with None, or with an exception.
ReturnValue(v) == [kind |-> "value", v |-> v]

ReturnNone == [kind |-> "None", v |-> ""]

RaisedValue == [kind |-> "raised", v |-> ""]

FileOf(bytes, data, complete) == [bytes |-> bytes, data |-> data, complete |-> complete]

\* save_image_to_disk: the result [files, value] of writing data to the fresh
\* path.  Everything happens inside the try block: any failure returns "".
\* The file is opened before the data is decoded, so a failure after the
\* open leaves an empty file behind.
save_image_to_disk_raising(files, path, data, disk) ==
    LET decoded == b64decode(data) IN
    IF disk = "open_fails"
    THEN [files |-> files, value |-> ReturnValue("")]
    ELSE IF ~decoded.ok
    THEN [files |-> Put(files, path, FileOf("", data, FALSE)), value |-> RaisedValue]
    ELSE IF disk = "write_fails"
    THEN [files |-> Put(files, path, FileOf("", data, FALSE)), value |-> ReturnValue("")]
    ELSE [files |-> Put(files, path, FileOf(decoded.bytes, data, TRUE)),
          value |-> ReturnValue(path)]

save_image_to_disk(files, path, data, disk) ==
    LET decoded == b64decode(data) IN
    IF disk = "open_fails"
    THEN [files |-> files, value |-> ReturnValue("")]
    ELSE IF ~decoded.ok \/ disk = "write_fails"
    THEN [files |-> Put(files, path, FileOf("", data, FALSE)), value |-> ReturnValue("")]
    ELSE [files |-> Put(files, path, FileOf(decoded.bytes, data, TRUE)),
          value |-> ReturnValue(path)]

\* load_image_from_disk: None for an empty or missing path and for a file
\* that cannot be read, else the base64 text of the bytes on disk.
load_image_from_disk(files, path, readable) ==
    IF path = "" \/ path \notin DOMAIN files
    THEN ReturnNone
    ELSE IF ~readable
    THEN ReturnNone
    ELSE ReturnValue(b64encode(files[path].bytes))

LoadPaths == {"", FreshPath(0), FreshPath(1), FreshPath(2), FreshPath(3)}

ImageHandler_save_image_to_disk(data, disk) ==
    LET path == FreshPath(nextImage)
        r    == save_image_to_disk(vault, path, data, disk) IN
    /\ vault' = r.files
    /\ image_files' = DOMAIN r.files
    /\ nextImage' = nextImage + 1
    /\ call' = [op |-> "save_image_to_disk", data |-> data, disk |-> disk,
                before |-> vault, value |-> r.value]
    /\ UNCHANGED <<histVars, karma_db, req, result, nRequests, memVars, karma_file>>

ImageHandler_load_image_from_disk(path, readable) ==
    /\ call' = [op |-> "load_image_from_disk", path |-> path,
                readable |-> readable, before |-> vault,
                value |-> load_image_from_disk(vault, path, readable)]
    /\ UNCHANGED <<histVars, coreVars, memVars, vault, karma_file>>

InitVault ==
    /\ HistoryInit(EmptyDict)
    /\ CoreIdle
    /\ MemIdle
    /\ CallIdle

NextVault ==
    \/ /\ nextImage <= MaxSaves
       /\ \E data \in B64Data, disk \in DiskOutcomes :
              ImageHandler_save_image_to_disk(data, disk)
    \/ \E path \in LoadPaths, readable \in BOOLEAN :
           ImageHandler_load_image_from_disk(path, readable)

SpecVault == InitVault /\ [][NextVault]_vars

SaveFailed(c) == c.disk # "written" \/ ~b64decode(c.data).ok

\* The files that a successful save wrote.
Saved(files) == {p \in DOMAIN files : files[p].complete}

\* C16: ImageVault never raises.  A save that succeeds returns a non-empty
\* path that did not exist before and now holds the decoded data; a save
\* that fails in any way returns the empty string.  A load of a path that a
\* successful save wrote returns that save's content, and a load of an
\* empty, missing or unreadable path returns None.  Neither call ends in an
\* exception.
VaultNeverRaises ==
    /\ call.op = "save_image_to_disk" =>
          /\ call.value.kind = "value"
          /\ SaveFailed(call) <=> call.value.v = ""
          /\ ~SaveFailed(call) =>
                /\ call.value.v \notin DOMAIN call.before
                /\ call.value.v \in Saved(vault)
                /\ vault[call.value.v].bytes = b64decode(call.data).bytes
          /\ \A p \in DOMAIN call.before : vault[p] = call.before[p]
    /\ call.op = "load_image_from_disk" =>
          /\ call.value.kind \in {"value", "None"}
          /\ call.path \in Saved(vault) /\ call.readable =>
                /\ call.value.kind = "value"
                /\ b64decode(call.value.v) = b64decode(vault[call.path].data)
          /\ call.path = "" \/ call.path \notin DOMAIN vault \/ ~call.readable =>
                call.value.kind = "None"

\* A save with non-canonical data succeeded and a later load of its path
\* returned the content; an earlier save failed on undecodable data.
VaultNeverRaisesWitness ==
    /\ call.op = "load_image_from_disk"
    /\ call.readable
    /\ call.path \in Saved(vault)
    /\ vault[call.path].data = "aGk=\n"
    /\ call.value.v = "aGk="
    /\ \E p \in DOMAIN vault : ~vault[p].complete /\ vault[p].data = "a"

-----------------------------------------------------------------------------
(* The image action of a request (SpecCore) *)

\* the request ran its edit branch
EditRequested == req.kind \in {"stored", "returned"} /\ req.action.kind = "edit"

Reverse(seq) == [i \in 1..Len(seq) |-> seq[Len(seq) + 1 - i]]

\* C17: edit-target fallback chain.  For a reply with an edit marker, a
\* request without an uploaded image whose ring has two entries hands the
\* edit call exactly those two entries, newest first; a request with an
\* uploaded image and a non-empty ring hands it the uploaded image first and
\* then ring entries.
EditTargetChain ==
    EditRequested =>
        /\ ~req.has_image /\ Len(req.ring) = 2 =>
               req.action.images = Reverse(req.ring)
        /\ req.has_image /\ req.ring # <<>> =>
               /\ Len(req.action.images) >= 2
               /\ req.action.images[1] = "input"
               /\ \A i \in 2..Len(req.action.images) :
                      \E j \in 1..Len(req.ring) : req.action.images[i] = req.ring[j]

\* What the code does: the edit call is handed one image, the uploaded one
\* when there is one and else one entry of the ring.
EditSingleTarget ==
    EditRequested /\ req.action.outcome # "not_called" =>
        /\ Len(req.action.images) = 1
        /\ req.has_image => req.action.images = <<"input">>
        /\ ~req.has_image =>
               \E j \in 1..Len(req.ring) : req.action.images[1] = req.ring[j]

NoTargetNote == "\n[System: I cannot edit the image because no image was provided/found in history.]"

\* no image was uploaded and no entry of the ring is a file on disk
NoTargetResolves ==
    /\ ~req.has_image
    /\ \A j \in 1..Len(req.ring) : req.ring[j] \notin req.files

EndsWith(text, token) == text # <<>> /\ text[Len(text)] = token

GenFailureNotes ==
    {"\n[System: Failed to generate image]", "\n[System: Error during image generation]"}

\* the request ran its gen branch and the image backend gave no image
GenFailed ==
    /\ req.kind \in {"stored", "returned"}
    /\ req.action.kind = "gen"
    /\ req.action.outcome \in {"no_image", "raised"}

HasNote(text, notes) == \E i \in 1..Len(text) : text[i] \in notes

\* C19: image-generation failure is visible.  When the reply carries a
\* generate-image marker and the image backend returns no image or raises,
\* the request still ends with a response, whose text holds a bracketed
\* system note about the failure and which carries no image, and the action
\* writes no file and adds no ring entry.
GenFailureVisible ==
    GenFailed =>
        /\ HasNote(req.response, GenFailureNotes)
        /\ req.img = ""
        /\ req.action.saved = ""
        /\ image_files = req.files
        /\ ~HasNote(req.assistant_text, {"\n[Generated Image]"})
        /\ req.kind = "returned" =>
              /\ result.kind = "response"
              /\ result.response = req.response
              /\ result.img = ""

\* a request with an input image and a raising image backend has returned
GenFailureVisibleWitness ==
    /\ GenFailed
    /\ req.action.outcome = "raised"
    /\ req.has_image
    /\ req.kind = "returned"
    /\ result.kind = "response"
    /\ HasNote(result.response, GenFailureNotes)

-----------------------------------------------------------------------------
(* The turn a request leaves in the history (SpecCore) *)

\* the request's generation call returned (a reply or None)
GenerationCompleted ==
    req.kind \in {"stored", "returned"} /\ req.model.kind # "raise"

\* the two messages the claim describes, from what the request was given
\* and what it displays
TurnOf(r) ==
    << [role |-> "user",
        content |-> [kind |-> "parts", text |-> r.text, image_url |-> r.input_path]],
       [role |-> "assistant",
        content |-> [kind |-> "str",
                     text |-> IF r.img # "" THEN r.response \o <<"\n[Generated Image]">>
                              ELSE r.response,
                     image_url |-> ""]] >>

Appended(r) == SubSeq(appendLog[r.user_id], r.appended + 1, Len(appendLog[r.user_id]))

-----------------------------------------------------------------------------
(***************************************************************************)
(* The karma store under concurrent calls.                                 *)
(*                                                                         *)
(* No method of KarmaManager or Multimodal takes a lock, and the agent is  *)
(* one object shared by the threads that serve requests and run the        *)
(* background tasks.  A call is a sequence of steps, one per statement     *)
(* that reads or writes self.karma_db, and the steps of two calls          *)
(* interleave freely.                                                      *)
(*                                                                         *)
(* get_info returns the stored dict itself when the record is a dict, so   *)
(* a write into current_info is then a write into the store (alias); for   *)
(* a legacy int or an unseen user it returns a new dict, which reaches the *)
(* store only with self.karma_db[user_id] = current_info.                  *)
(***************************************************************************)
MaxThreadCalls == 2

KarmaThreads == {"t1", "t2"}

ThreadDeltas == {-1, 1}

NoInfo == KarmaRecord(0, "")

IdleThread ==
    [pc |-> "idle", op |-> "none", user_id |-> "", arg |-> 0, username |-> "",
     outcome |-> [kind |-> "none", v |-> <<>>],
     alias |-> FALSE, info |-> NoInfo, current_score |-> 0, before |-> 0]

\* the calls a thread can make: the two adjusts, the set and the refresh
KarmaCalls ==
    { [op |-> o, user_id |-> u, arg |-> d, username |-> "bob",
       outcome |-> [kind |-> "none", v |-> <<>>]]
        : o \in {"update_score", "update_karma"}, u \in UserIds, d \in ThreadDeltas }
    \cup { [op |-> "set_score", user_id |-> u, arg |-> 7, username |-> "",
            outcome |-> [kind |-> "none", v |-> <<>>]] : u \in UserIds }
    \cup { [op |-> "update_user_summary", user_id |-> u, arg |-> 0, username |-> "",
            outcome |-> o]
            : u \in UserIds,
              o \in { [kind |-> "raise", v |-> <<>>],
                      [kind |-> "text", v |-> <<"k", "n", "o", "w", "s", "T", "L", "A">>] } }

\* current_info as the thread sees it
InfoOf(db, t) == IF t.alias THEN db[t.user_id].d ELSE t.info

\* the threads whose current_info is the dict stored for u, other than w
Aliasing(ws, w, u) ==
    {v \in KarmaThreads \ {w} : ws[v].pc # "idle" /\ ws[v].alias /\ ws[v].user_id = u}

\* a call starts
ThreadCall(w, c) ==
    /\ workers[w].pc = "idle"
    /\ nCalls < MaxThreadCalls
    /\ workers' = [workers EXCEPT ![w] =
                      [IdleThread EXCEPT !.pc = "read", !.op = c.op, !.user_id = c.user_id,
                                         !.arg = c.arg, !.username = c.username,
                                         !.outcome = c.outcome,
                                         !.before = ScoreOf(karma_db, c.user_id)]]
    /\ nCalls' = nCalls + 1
    /\ UNCHANGED <<histVars, coreVars, collection, clock, completed, retrieved,
                   call, vault, karma_file>>

\* current_info = self.get_info(user_id); current_score = current_info.get("score", 0)
ThreadRead(w) ==
    LET t == workers[w]
        stored == t.user_id \in DOMAIN karma_db /\ karma_db[t.user_id].kind = "dict"
        info == get_info(karma_db, t.user_id)
    IN  /\ t.pc = "read"
        /\ workers' = [workers EXCEPT ![w] =
                          [t EXCEPT !.alias = stored,
                                    !.info = IF stored THEN NoInfo ELSE info,
                                    !.current_score = Get(info, "score", 0),
                                    !.pc = CASE t.op = "update_karma" -> "assign"
                                             [] t.op = "update_user_summary" -> "summarize"
                                             [] OTHER -> "mutate"]]
        /\ UNCHANGED <<histVars, coreVars, collection, clock, completed, nCalls,
                       retrieved, call, vault, karma_file>>

\* the summarization call returns: only a new summary goes on to be written
ThreadSummarize(w) ==
    LET t == workers[w] IN
    /\ t.pc = "summarize"
    /\ workers' = [workers EXCEPT ![w] =
                      IF t.outcome.kind = "text" THEN [t EXCEPT !.pc = "mutate"]
                      ELSE IdleThread]
    /\ call' = IF t.outcome.kind = "text" THEN call
               ELSE [call EXCEPT !.calls = Append(@,
                        [w |-> w, op |-> t.op, user_id |-> t.user_id, arg |-> t.arg,
                         before |-> t.before, after |-> ScoreOf(karma_db, t.user_id),
                         value |-> 0])]
    /\ UNCHANGED <<histVars, coreVars, collection, clock, completed, nCalls,
                   retrieved, vault, karma_file>>

\* the fields a call writes into current_info
Written(t, info, now) ==
    CASE t.op = "update_score" ->
             IF t.username # ""
             THEN Put(Put(info, "score", t.current_score + t.arg), "username", t.username)
             ELSE Put(info, "score", t.current_score + t.arg)
      [] t.op = "set_score" -> Put(info, "score", t.arg)
      [] OTHER -> Put(Put(info, "summary", Strip(t.outcome.v)), "last_interaction", now)

\* current_info["score"] = new_score (and the other fields of the call)
ThreadMutate(w) ==
    LET t == workers[w] IN
    /\ t.pc = "mutate"
    /\ IF t.alias
       THEN /\ karma_db' = Put(karma_db, t.user_id,
                               KarmaDict(Written(t, karma_db[t.user_id].d, clock)))
            /\ workers' = [workers EXCEPT ![w].pc = "assign"]
       ELSE /\ workers' = [workers EXCEPT ![w].pc = "assign",
                                          ![w].info = Written(t, t.info, clock)]
            /\ UNCHANGED karma_db
    /\ UNCHANGED <<histVars, image_files, nextImage, req, result, nRequests,
                   collection, clock, completed, nCalls, retrieved, call, vault,
                   karma_file>>

\* the dict that update_karma builds
FreshRecord(t, info) ==
    KarmaRecord(t.current_score + t.arg,
                IF t.username # "" THEN t.username ELSE Get(info, "username", "Unknown"))

\* self.karma_db[user_id] = current_info (update_karma: = a new dict).  The
\* threads that held the dict stored before keep it, now apart from the store.
ThreadAssign(w) ==
    LET t == workers[w]
        u == t.user_id
        fresh == t.op = "update_karma"
        value == IF fresh THEN FreshRecord(t, InfoOf(karma_db, t)) ELSE InfoOf(karma_db, t)
        replaced == fresh \/ ~t.alias
        apart == IF replaced THEN Aliasing(workers, w, u) ELSE {}
    IN  /\ t.pc = "assign"
        /\ karma_db' = Put(karma_db, u, KarmaDict(value))
        /\ workers' = [v \in WorkerIds |->
                          IF v = w THEN [t EXCEPT !.pc = "save", !.alias = TRUE, !.info = NoInfo]
                          ELSE IF v \in apart
                          THEN [workers[v] EXCEPT !.alias = FALSE, !.info = karma_db[u].d]
                          ELSE workers[v]]
        /\ UNCHANGED <<histVars, image_files, nextImage, req, result, nRequests,
                       collection, clock, completed, nCalls, retrieved, call, vault,
                       karma_file>>

\* save_json(self.karma_file, self.karma_db) and the return of the call
ThreadSave(w) ==
    LET t == workers[w] IN
    /\ t.pc = "save"
    /\ karma_file' = Complete(karma_db)
    /\ workers' = [workers EXCEPT ![w] = IdleThread]
    /\ call' = [call EXCEPT !.calls = Append(@,
                   [w |-> w, op |-> t.op, user_id |-> t.user_id, arg |-> t.arg,
                    before |-> t.before, after |-> ScoreOf(karma_db, t.user_id),
                    value |-> IF t.op = "set_score" THEN t.arg
                              ELSE IF t.op = "update_user_summary" THEN 0
                              ELSE t.current_score + t.arg])]
    /\ UNCHANGED <<histVars, coreVars, collection, clock, completed, nCalls,
                   retrieved, vault>>

InitKarmaThreads ==
    /\ HistoryInit(EmptyDict)
    /\ \E k \in KarmaStores : karma_db = k
    /\ karma_file = Complete(karma_db)
    /\ image_files = {}
    /\ nextImage = 1
    /\ req = NoRequest
    /\ result = NoResult
    /\ nRequests = 0
    /\ collection = {}
    /\ clock = 1
    /\ workers = [w \in WorkerIds |-> IdleThread]
    /\ completed = {}
    /\ nCalls = 0
    /\ retrieved = NotRetrieved
    /\ call = [op |-> "threads", before |-> karma_db, calls |-> <<>>]
    /\ vault = EmptyDict

NextKarmaThreads ==
    \E w \in KarmaThreads :
        \/ /\ workers[w].pc = "idle"
           /\ \E c \in KarmaCalls : ThreadCall(w, c)
        \/ ThreadRead(w)
        \/ ThreadSummarize(w)
        \/ ThreadMutate(w)
        \/ ThreadAssign(w)
        \/ ThreadSave(w)

SpecKarmaThreads == InitKarmaThreads /\ [][NextKarmaThreads]_vars

\* every call started has returned
AllReturned ==
    /\ \A w \in KarmaThreads : workers[w].pc = "idle"
    /\ Len(call.calls) = nCalls

Adjusts == {"update_score", "update_karma"}

RECURSIVE SumOfDeltas(_)
SumOfDeltas(calls) ==
    IF calls = <<>> THEN 0 ELSE Head(calls).arg + SumOfDeltas(Tail(calls))

\* the calls, taken in some order one after the other from score s, return
\* what they returned
RECURSIVE SerialReturns(_, _)
SerialReturns(S, s) ==
    \/ S = {}
    \/ \E i \in S : /\ call.calls[i].value = s + call.calls[i].arg
                    /\ SerialReturns(S \ {i}, s + call.calls[i].arg)

\* C21: no lost karma updates.  When concurrent adjust calls on one user
\* have all returned, the stored score (in memory and in the file) is the
\* initial score plus the sum of the deltas, and the scores the calls
\* returned are those of some serial order of the calls.
NoLostKarmaUpdates ==
    /\ AllReturned
    /\ call.calls # <<>>
    /\ \A i \in 1..Len(call.calls) :
           /\ call.calls[i].op \in Adjusts
           /\ call.calls[i].user_id = call.calls[1].user_id
    => LET u == call.calls[1].user_id
           s == ScoreOf(call.before, u) + SumOfDeltas(call.calls)
       IN  /\ ScoreOf(karma_db, u) = s
           /\ karma_file = Complete(karma_db)
           /\ SerialReturns(1..Len(call.calls), ScoreOf(call.before, u))

-----------------------------------------------------------------------------
(***************************************************************************)
(* The history store under concurrent requests.                            *)
(*                                                                         *)
(* A request (generate_text without a name, an image or a marker in the    *)
(* reply) takes the deque of its context, calls the model, appends its two *)
(* messages and saves.  Its steps are the statements that read or write    *)
(* self.histories and the file; threads interleave at every step, and      *)
(* cooperative requests run from one external call to the next.            *)
(*                                                                         *)
(* `history` is a reference to a deque: the one stored for the context     *)
(* (alias), or one that another thread's get_user_history has replaced in  *)
(* self.histories since (own).                                             *)
(***************************************************************************)
MaxTurns == 2

TurnThreads == {"t1", "t2"}

IdleTurn ==
    [pc |-> "idle", user_id |-> "", alias |-> FALSE, own |-> <<>>, snapshot |-> EmptyDict]

\* the two messages of the request of thread w
TurnUser(w) == UserMessage(<<"h", "i", w>>, "")

TurnAssistant(w) == AssistantMessage(<<"w", w>>)

\* the threads whose history is the deque stored for c, other than w
Sharing(ws, w, c) ==
    {v \in TurnThreads \ {w} : ws[v].pc # "idle" /\ ws[v].alias /\ ws[v].user_id = c}

\* get_user_history, the deque is stored: return self.histories[user_id]
Taken(t) == [t EXCEPT !.alias = TRUE, !.own = <<>>, !.pc = "generate"]

\* self.histories[user_id] = deque(maxlen=HISTORY_MAXLEN); the threads that
\* hold the deque stored before keep it
Created(ws, h, w, c) ==
    [v \in WorkerIds |->
        IF v = w THEN [ws[v] EXCEPT !.pc = "take"]
        ELSE IF v \in Sharing(ws, w, c) /\ c \in DOMAIN h
        THEN [ws[v] EXCEPT !.alias = FALSE, !.own = h[c]]
        ELSE ws[v]]

\* history.append(message) by thread state t: into the stored deque or its own
AppendedStore(h, t, m) ==
    IF t.alias THEN Put(h, t.user_id, DequeAppend(h[t.user_id], m)) ELSE h

AppendedOwn(t, m) == IF t.alias THEN t.own ELSE DequeAppend(t.own, m)

TurnFrame ==
    UNCHANGED <<last_images, lastOp, nOps, coreVars, collection, clock,
                completed, retrieved, call, vault, karma_file>>

\* if username: self.usernames[user_id] = username
Named(names, c, username) == IF username # "" THEN Put(names, c, username) ELSE names

TurnStart(w, c, username) ==
    /\ workers[w].pc = "idle"
    /\ nCalls < MaxTurns
    /\ usernames' = Named(usernames, c, username)
    /\ workers' = [workers EXCEPT ![w] = [IdleTurn EXCEPT !.pc = "check", !.user_id = c]]
    /\ nCalls' = nCalls + 1
    /\ UNCHANGED <<histories, history_file, appendLog>>
    /\ TurnFrame

\* if user_id not in self.histories
TurnCheck(w) ==
    LET t == workers[w] IN
    /\ t.pc = "check"
    /\ workers' = [workers EXCEPT ![w] =
                      IF t.user_id \in DOMAIN histories THEN Taken(t)
                      ELSE [t EXCEPT !.pc = "create"]]
    /\ UNCHANGED <<histories, history_file, appendLog, nCalls, usernames>>
    /\ TurnFrame

TurnCreate(w) ==
    LET t == workers[w] IN
    /\ t.pc = "create"
    /\ histories' = Put(histories, t.user_id, <<>>)
    /\ workers' = Created(workers, histories, w, t.user_id)
    /\ UNCHANGED <<history_file, appendLog, nCalls, usernames>>
    /\ TurnFrame

TurnTake(w) ==
    /\ workers[w].pc = "take"
    /\ workers' = [workers EXCEPT ![w] = Taken(@)]
    /\ UNCHANGED <<histories, history_file, appendLog, nCalls, usernames>>
    /\ TurnFrame

\* the model call returns
TurnGenerate(w) ==
    /\ workers[w].pc = "generate"
    /\ workers' = [workers EXCEPT ![w].pc = "append_user"]
    /\ UNCHANGED <<histories, history_file, appendLog, nCalls, usernames>>
    /\ TurnFrame

\* history.append({"role": "user", ...})
TurnAppendUser(w) ==
    LET t == workers[w] IN
    /\ t.pc = "append_user"
    /\ histories' = AppendedStore(histories, t, TurnUser(w))
    /\ workers' = [workers EXCEPT ![w].own = AppendedOwn(t, TurnUser(w)),
                                  ![w].pc = "append_assistant"]
    /\ appendLog' = [appendLog EXCEPT ![t.user_id] = Append(@, TurnUser(w))]
    /\ UNCHANGED <<history_file, nCalls, usernames>>
    /\ TurnFrame

\* history.append({"role": "assistant", ...})
TurnAppendAssistant(w) ==
    LET t == workers[w] IN
    /\ t.pc = "append_assistant"
    /\ histories' = AppendedStore(histories, t, TurnAssistant(w))
    /\ workers' = [workers EXCEPT ![w].own = AppendedOwn(t, TurnAssistant(w)),
                                  ![w].pc = "snapshot"]
    /\ appendLog' = [appendLog EXCEPT ![t.user_id] = Append(@, TurnAssistant(w))]
    /\ UNCHANGED <<history_file, nCalls, usernames>>
    /\ TurnFrame

\* _save_history builds serializable_data
TurnSnapshot(w) ==
    /\ workers[w].pc = "snapshot"
    /\ workers' = [workers EXCEPT ![w].snapshot = SaveDocument(histories, usernames, last_images),
                                  ![w].pc = "write"]
    /\ UNCHANGED <<histories, history_file, appendLog, nCalls, usernames>>
    /\ TurnFrame

\* _save_json writes it; the request is finished
TurnWrite(w) ==
    /\ workers[w].pc = "write"
    /\ history_file' = workers[w].snapshot
    /\ workers' = [workers EXCEPT ![w] = IdleTurn]
    /\ UNCHANGED <<histories, appendLog, nCalls, usernames>>
    /\ TurnFrame

InitTurns ==
    /\ \E doc \in {EmptyDict, EarlierTurns} : HistoryInit(doc)
    /\ CoreIdle
    /\ collection = {}
    /\ clock = 1
    /\ workers = [w \in WorkerIds |-> IdleTurn]
    /\ completed = {}
    /\ nCalls = 0
    /\ retrieved = NotRetrieved
    /\ CallIdle

NextTurnThreads ==
    \E w \in TurnThreads :
        \/ \E c \in UserIds, username \in Names \cup {""} : TurnStart(w, c, username)
        \/ TurnCheck(w)
        \/ TurnCreate(w)
        \/ TurnTake(w)
        \/ TurnGenerate(w)
        \/ TurnAppendUser(w)
        \/ TurnAppendAssistant(w)
        \/ TurnSnapshot(w)
        \/ TurnWrite(w)

SpecTurnThreads == InitTurns /\ [][NextTurnThreads]_vars

\* every request started has finished
AllFinished == nCalls > 0 /\ \A w \in TurnThreads : workers[w].pc = "idle"

\* C22: no lost history appends.  Once the concurrent requests have all
\* finished, the messages appended to a context (the newest HISTORY_MAXLEN
\* of them) are the context's messages in memory and in the file that was
\* written last.
NoLostHistoryAppends ==
    AllFinished =>
        \A c \in UserIds :
            appendLog[c] # <<>> =>
                /\ c \in DOMAIN histories
                /\ histories[c] = Deque(appendLog[c])
                /\ c \in DOMAIN history_file
                /\ history_file[c].messages = Deque(appendLog[c])

-----------------------------------------------------------------------------
(* Requests that give way to each other only at external calls *)

\* the messages of a turn the other way round
TurnMessagesAssistantFirst(w) == <<TurnAssistant(w), TurnUser(w)>>

\* the messages a request appends, in the order of the appends
TurnMessages(w) == <<TurnUser(w), TurnAssistant(w)>>

\* generate_text up to its first external call (the embedding of
\* retrieve_context): get_user_history runs as a whole
CoopBegin(w, c, username) ==
    /\ workers[w].pc = "idle"
    /\ nCalls < MaxTurns
    /\ usernames' = Named(usernames, c, username)
    /\ histories' = get_history_store(histories, c)
    /\ workers' = [workers EXCEPT ![w] =
                      [IdleTurn EXCEPT !.pc = "generate", !.user_id = c, !.alias = TRUE]]
    /\ nCalls' = nCalls + 1
    /\ UNCHANGED <<history_file, appendLog>>
    /\ TurnFrame

\* from the return of the model call to the next external call (the
\* extraction of _store_memory): both appends and _save_history
CoopPersist(w) ==
    LET c  == workers[w].user_id
        ms == TurnMessages(w)
        h2 == Put(histories, c, DequeAppend(DequeAppend(histories[c], ms[1]), ms[2]))
    IN  /\ workers[w].pc = "generate"
        /\ histories' = h2
        /\ appendLog' = [appendLog EXCEPT ![c] = Append(Append(@, ms[1]), ms[2])]
        /\ history_file' = SaveDocument(h2, usernames, last_images)
        /\ workers' = [workers EXCEPT ![w] = IdleTurn]
        /\ UNCHANGED <<nCalls, usernames>>
        /\ TurnFrame

NextTurnCoop ==
    \E w \in TurnThreads :
        \/ \E c \in UserIds, username \in Names \cup {""} : CoopBegin(w, c, username)
        \/ CoopPersist(w)

SpecTurnCoop == InitTurns /\ [][NextTurnCoop]_vars

\* the assistant message that belongs to a user message of a request
AnswerOf(m) ==
    IF \E w \in TurnThreads : m.content.text = <<"h", "i", w>>
    THEN AssistantMessage(<<"w", m.content.text[3]>>)
    ELSE AssistantMessage(<<"w">>)

\* C29: turns stay paired.  When requests give way only at external calls,
\* every user message in a context's history is immediately followed by
\* the assistant message of the same request, in memory and in the file.
TurnsPaired ==
    \A c \in DOMAIN histories :
        LET h == histories[c] IN
        /\ \A i \in 1..Len(h) :
               h[i].role = "user" => i < Len(h) /\ h[i + 1] = AnswerOf(h[i])
        /\ c \in DOMAIN history_file => history_file[c].messages = h \/ h = <<>>

\* two requests in one context overlapped: the second began before the
\* first appended, and both turns are in the history
TurnsPairedWitness ==
    /\ AllFinished
    /\ nCalls = 2
    /\ "21" \in DOMAIN histories
    /\ histories["21"] = <<TurnAssistant("t2"), TurnUser("t1"), TurnAssistant("t1")>>

-----------------------------------------------------------------------------
(***************************************************************************)
(* load_json and save_json (components/common.py) on karma.json.           *)
(*                                                                         *)
(* save_json opens the file itself for writing, which empties it, and      *)
(* json.dump then writes the text piece by piece; load_json returns {} for *)
(* a text that json.load rejects.                                          *)
(***************************************************************************)
\* the file after open(filepath, 'w'), and with a first part of the text
Truncated == [kind |-> "empty", v |-> EmptyDict]

Partial(doc) == [kind |-> "partial", v |-> doc]

\* load_json: the document, or {} when json.load raises
load_json(file) == IF file.kind = "complete" THEN file.v ELSE EmptyDict

IdleSave == [pc |-> "idle", old |-> EmptyDict, doc |-> EmptyDict]

PersistFrame ==
    UNCHANGED <<histVars, image_files, nextImage, req, result, nRequests, collection,
                clock, completed, nCalls, retrieved, vault>>

\* KarmaManager.set_score up to the open() of save_json
SaveOpen(w, u, score) ==
    /\ workers[w].pc = "idle"
    /\ nOps < MaxKarmaOps
    /\ karma_db' = set_score(karma_db, u, score).karma_db
    /\ karma_file' = Truncated
    /\ workers' = [workers EXCEPT ![w] =
                      [pc |-> "dump", old |-> karma_db, doc |-> karma_db']]
    /\ nOps' = Counted
    /\ UNCHANGED <<histories, usernames, last_images, history_file, appendLog, lastOp>>
    /\ UNCHANGED <<image_files, nextImage, req, result, nRequests, collection, clock,
                   completed, nCalls, retrieved, vault, call>>

\* json.dump has written a part of the text
SaveDump(w) ==
    /\ workers[w].pc = "dump"
    /\ karma_file' = Partial(workers[w].doc)
    /\ workers' = [workers EXCEPT ![w].pc = "close"]
    /\ UNCHANGED <<karma_db, call>>
    /\ PersistFrame

\* json.dump has written the rest and the file is closed
SaveClose(w) ==
    /\ workers[w].pc = "close"
    /\ karma_file' = Complete(workers[w].doc)
    /\ workers' = [workers EXCEPT ![w] = IdleSave]
    /\ UNCHANGED <<karma_db, call>>
    /\ PersistFrame

\* the process is stopped during the save and started again:
\* KarmaManager.__init__ loads what is on disk
SaveInterrupted(w) ==
    /\ workers[w].pc \in {"dump", "close"}
    /\ karma_db' = load_json(karma_file)
    /\ UNCHANGED karma_file
    /\ call' = [op |-> "load_json", during |-> "interrupted", old |-> workers[w].old,
                new |-> workers[w].doc, value |-> load_json(karma_file)]
    /\ workers' = [workers EXCEPT ![w] = IdleSave]
    /\ PersistFrame

\* a second instance is constructed on the same file at any moment
LoadAnyTime(w) ==
    /\ call' = [op |-> "load_json", during |-> workers[w].pc,
                old |-> IF workers[w].pc = "idle" THEN karma_db ELSE workers[w].old,
                new |-> IF workers[w].pc = "idle" THEN karma_db ELSE workers[w].doc,
                value |-> load_json(karma_file)]
    /\ UNCHANGED <<karma_db, karma_file, workers>>
    /\ PersistFrame

InitPersist ==
    /\ HistoryInit(EmptyDict)
    /\ \E k \in KarmaStores : karma_db = k
    /\ karma_file = Complete(karma_db)
    /\ image_files = {}
    /\ nextImage = 1
    /\ req = NoRequest
    /\ result = NoResult
    /\ nRequests = 0
    /\ collection = {}
    /\ clock = 1
    /\ workers = [w \in WorkerIds |-> IdleSave]
    /\ completed = {}
    /\ nCalls = 0
    /\ retrieved = NotRetrieved
    /\ CallIdle

NextPersist ==
    \/ \E u \in UserIds, score \in Scores : SaveOpen("main", u, score)
    \/ SaveDump("main")
    \/ SaveClose("main")
    \/ SaveInterrupted("main")
    \/ LoadAnyTime("main")

SpecPersist == InitPersist /\ [][NextPersist]_vars

\* C23: atomic whole-document persistence.  A load that runs at any point
\* of a save, or after a save that was interrupted, returns the complete
\* document saved before or the complete new one.
AtomicPersistence ==
    call.op = "load_json" => call.value \in {call.old, call.new}

-----------------------------------------------------------------------------
(* SpecDeferred: the deferred work of a turn, run after its response was
   returned: the history flush, store_memory, update_user_summary *)

\* the turns whose deferred work is followed
MaxDeferred == 1

\* the responses chat_endpoint returns
Responses == {<<"o", "k">>, <<"Here is your image.">>}

\* the user texts of a turn: too short for both tasks, and long enough
DeferredTexts == {<<"h", "i">>, <<"h", "e", "l", "l", "o">>, <<" ", "l", "i", "k", "e", " ">>}

\* no deferred work is running
DeferredOver == call = NoCall \/ (call.op = "deferred" /\ call.pc \in {"done", "aborted"})

\* chat_endpoint: the response is returned and the deferred work is scheduled
chat_endpoint(u, text, response) ==
    /\ DeferredOver
    /\ nRequests < MaxDeferred
    /\ nRequests' = nRequests + 1
    /\ result' = [kind |-> "ok", response |-> response, img |-> ""]
    /\ call' = [op |-> "deferred", pc |-> "flush", user_id |-> u, text |-> text,
                returned |-> result', refresh |-> "pending", stored |-> collection]
    /\ UNCHANGED <<karma_db, image_files, nextImage, req>>
    /\ UNCHANGED <<histVars, memVars, vault, karma_file>>

\* the deferred work begins: the history is written once more
DeferredFlush ==
    /\ call.op = "deferred" /\ call.pc = "flush"
    /\ history_file' = SaveDocument(histories, usernames, last_images)
    /\ call' = [call EXCEPT !.pc = "memory"]
    /\ UNCHANGED <<histories, usernames, last_images, appendLog, lastOp, nOps>>
    /\ UNCHANGED <<coreVars, memVars, vault, karma_file>>

\* the deferred work calls store_memory: the short-input return, or the
\* extraction request
DeferredStoreMemory(w) ==
    /\ call.op = "deferred" /\ call.pc = "memory"
    /\ nCalls' = nCalls + 1
    /\ LET wk == [pc |-> "extract", user_id |-> call.user_id, text |-> call.text,
                  extraction |-> NoExtraction, todo |-> <<>>, added |-> 0,
                  clean |-> TRUE, seen |-> completed]
       IN  workers' = [workers EXCEPT ![w] =
                          IF Len(Strip(call.text)) < 3 THEN Returned(wk) ELSE wk]
    /\ retrieved' = NotRetrieved
    /\ call' = [call EXCEPT !.pc = "refresh"]
    /\ UNCHANGED <<collection, clock, completed>>
    /\ UNCHANGED <<histVars, coreVars, vault, karma_file>>

\* collection.get or collection.add raises: the outer except logs it and the
\* call returns with the pairs that are left unstored
MemStoreFails(w) ==
    /\ workers[w].pc \in {"check", "add"}
    /\ workers' = [workers EXCEPT ![w] = Caught([@ EXCEPT !.clean = FALSE])]
    /\ UNCHANGED <<collection, clock, completed, nCalls, retrieved>>
    /\ UNCHANGED <<histVars, coreVars, call, vault, karma_file>>

\* store_memory is over: update_user_summary is called when it has returned,
\* an exception that left it ends the deferred work
DeferredRefresh(w, outcome) ==
    /\ call.op = "deferred" /\ call.pc = "refresh"
    /\ workers[w].pc \in {"done", "raised"}
    /\ IF workers[w].pc = "raised"
       THEN /\ call' = [call EXCEPT !.pc = "aborted"]
            /\ UNCHANGED <<karma_db, karma_file>>
       ELSE /\ karma_db' = update_user_summary(karma_db, call.user_id, call.text, outcome, clock)
            /\ karma_file' = IF karma_db' = karma_db THEN karma_file ELSE Complete(karma_db')
            /\ call' = [call EXCEPT !.pc = "done",
                                    !.refresh = IF Len(call.text) < SummaryMinLen
                                                THEN "skipped" ELSE outcome.kind,
                                    !.stored = collection]
    /\ UNCHANGED <<image_files, nextImage, req, result, nRequests>>
    /\ UNCHANGED <<histVars, memVars, vault>>

InitDeferred ==
    /\ \E doc \in {EmptyDict, EarlierTurns} : HistoryInit(doc)
    /\ \E k \in KarmaStores : karma_db = k
    /\ karma_file = Complete(karma_db)
    /\ image_files = {}
    /\ nextImage = 1
    /\ req = NoRequest
    /\ result = NoResult
    /\ nRequests = 0
    /\ MemIdle
    /\ CallIdle

NextDeferred ==
    \/ \E u \in UserIds, text \in DeferredTexts, response \in Responses :
          chat_endpoint(u, text, response)
    \/ DeferredFlush
    \/ DeferredStoreMemory("main")
    \/ MemExtractionFails("main")
    \/ \E e \in Extractions : MemExtracted("main", e)
    \/ MemCheck("main")
    \/ \E embedded \in BOOLEAN : MemAdd("main", embedded)
    \/ MemStoreFails("main")
    \/ \E outcome \in SummaryOutcomes : DeferredRefresh("main", outcome)

SpecDeferred == InitDeferred /\ [][NextDeferred]_vars

\* the memory task of the deferred work has ended on a failure: of the
\* extraction request, of the embedding request or of the vector store
MemoryFailed ==
    /\ workers["main"].pc \in {"done", "raised"}
    /\ Len(Strip(workers["main"].text)) >= 3
    /\ workers["main"].extraction.kind = "pending" \/ ~workers["main"].clean

\* C24: the deferred tasks are isolated. Once a response is returned it stays
\* what it was through the whole deferred work; the deferred work is never cut
\* short, so that update_user_summary is called whatever failed inside
\* store_memory; and when update_user_summary is over, whether its request
\* failed or not, the collection holds what store_memory left in it.
DeferredIsolated ==
    call.op = "deferred" =>
        /\ result = call.returned
        /\ call.pc # "aborted"
        /\ call.pc = "done" => /\ call.refresh # "pending"
                               /\ collection = call.stored

\* a deferred work is over in which store_memory failed and the summary was
\* refreshed all the same
DeferredIsolatedWitness ==
    /\ call.op = "deferred" /\ call.pc = "done"
    /\ MemoryFailed
    /\ call.refresh = "text"
    /\ karma_file = Complete(karma_db)
    /\ HasSummary(karma_db, call.user_id)

-----------------------------------------------------------------------------
(* The text substituted for an empty reply *)

\* a karma marker was found in the model's reply and the score adjusted
KarmaAdjusted == Contains(req.model.v, "{karma+}") \/ Contains(req.model.v, "{karma-}")

\* the request got a reply whose text is empty once the markers are removed
EmptyAfterMarkers ==
    /\ req.kind \in {"stored", "returned"}
    /\ req.model.kind = "text"
    /\ req.stripped = <<>>

\* C25: when the text is empty after all markers are stripped, the response
\* is "Here is your image." if an image action succeeded in the request,
\* "Done." if only a karma adjustment succeeded, and some non-empty
\* acknowledgment otherwise.
EmptyTextSubstitution ==
    EmptyAfterMarkers =>
        IF req.img # "" THEN req.response = <<"Here is your image.">>
        ELSE IF KarmaAdjusted THEN req.response = <<"Done.">>
        ELSE req.response # <<>>

-----------------------------------------------------------------------------
(* The image an edit falls back to *)

\* the instruction that follows the {edit} marker of the model's reply
EditInstruction == Search(req.model.v, "{edit}").keywords

\* the request ran edit_image on an image of the ring, none being uploaded
EditedFromRing ==
    /\ req.kind \in {"stored", "returned"}
    /\ req.action.kind = "edit"
    /\ req.action.images # <<>>
    /\ ~req.has_image

\* C26: for an edit with no uploaded image, the target is the second-to-last
\* entry of the ring when the instruction holds a cue word and the ring has
\* at least two entries, and the last entry otherwise, whatever the length of
\* the ring up to CONTEXT_LENGTH_IMAGE.
EditCueSelection ==
    EditedFromRing =>
        req.action.images[1] =
            IF HasCue(EditInstruction) /\ Len(req.ring) >= 2
            THEN req.ring[Len(req.ring) - 1]
            ELSE req.ring[Len(req.ring)]

-----------------------------------------------------------------------------
(* SpecRefresh: one update_user_summary call at a time, with update_score and
   set_score calls running while it waits for the summarization call *)

\* the state a refresh leaves alone
RefreshFrame ==
    /\ UNCHANGED <<histories, usernames, last_images, history_file, appendLog, lastOp>>
    /\ UNCHANGED <<image_files, nextImage, req, result, nRequests>>
    /\ UNCHANGED <<collection, clock, completed, nCalls, retrieved, vault>>

\* update_user_summary up to the summarization call: current_info is the dict
\* stored for the user, or a new dict for a legacy int and for no record
RefreshBegin(u, user_text) ==
    LET stored == u \in DOMAIN karma_db /\ karma_db[u].kind = "dict"
        info == get_info(karma_db, u)
    IN  /\ workers["main"].pc = "idle"
        /\ nOps < MaxKarmaOps
        /\ nOps' = nOps + 1
        /\ workers' = [workers EXCEPT !["main"] =
                          IF Len(user_text) < SummaryMinLen THEN IdleWorker
                          ELSE [pc |-> "summarize", user_id |-> u, alias |-> stored,
                                info |-> IF stored THEN NoInfo ELSE info,
                                current_summary |-> Get(info, "summary", <<"No summary yet.">>)]]
        /\ call' = [call EXCEPT !.calls = @ + 1]
        /\ UNCHANGED <<karma_db, karma_file>>
        /\ RefreshFrame

\* the summarization call is over: a new summary is put into current_info,
\* which is stored under the user and saved
RefreshEnd(outcome) ==
    LET t == workers["main"]
        current_info == IF t.alias THEN karma_db[t.user_id].d ELSE t.info
        new_summary == Strip(outcome.v)
        written == /\ outcome.kind = "text" /\ outcome.v # <<>>
                   /\ Len(new_summary) > SummaryMinLen
                   /\ new_summary # t.current_summary
    IN  /\ t.pc = "summarize"
        /\ karma_db' = IF written
                       THEN Put(karma_db, t.user_id,
                                KarmaDict(Put(Put(current_info, "summary", new_summary),
                                              "last_interaction", clock)))
                       ELSE karma_db
        /\ karma_file' = IF written THEN Complete(karma_db') ELSE karma_file
        /\ workers' = [workers EXCEPT !["main"] = IdleWorker]
        /\ call' = [call EXCEPT !.refreshed = written]
        /\ UNCHANGED nOps
        /\ RefreshFrame

\* a whole update_score call
RefreshAdjust(u, change, username) ==
    /\ nOps < MaxKarmaOps
    /\ nOps' = nOps + 1
    /\ karma_db' = update_score(karma_db, u, change, username).karma_db
    /\ karma_file' = Complete(karma_db')
    /\ call' = [call EXCEPT !.alone = update_score(@, u, change, username).karma_db]
    /\ UNCHANGED workers
    /\ RefreshFrame

\* a whole set_score call
RefreshSet(u, score) ==
    /\ nOps < MaxKarmaOps
    /\ nOps' = nOps + 1
    /\ karma_db' = set_score(karma_db, u, score).karma_db
    /\ karma_file' = Complete(karma_db')
    /\ call' = [call EXCEPT !.alone = set_score(@, u, score).karma_db]
    /\ UNCHANGED workers
    /\ RefreshFrame

\* the store update_score and set_score calls alone would have produced is
\* followed next to the store
InitRefresh ==
    /\ HistoryInit(EmptyDict)
    /\ \E k \in KarmaStores : karma_db = k
    /\ karma_file = Complete(karma_db)
    /\ image_files = {}
    /\ nextImage = 1
    /\ req = NoRequest
    /\ result = NoResult
    /\ nRequests = 0
    /\ MemIdle
    /\ vault = EmptyDict
    /\ call = [op |-> "refresh", alone |-> karma_db, calls |-> 0, refreshed |-> FALSE]

NextRefresh ==
    \/ \E u \in UserIds, user_text \in SummaryTexts : RefreshBegin(u, user_text)
    \/ \E outcome \in SummaryOutcomes : RefreshEnd(outcome)
    \/ \E u \in UserIds, change \in ThreadDeltas, username \in {"", "bob"} :
          RefreshAdjust(u, change, username)
    \/ \E u \in UserIds, score \in Scores : RefreshSet(u, score)

SpecRefresh == InitRefresh /\ [][NextRefresh]_vars

\* C27: a summary refresh never changes the score. Whenever no refresh is
\* under way, the score stored for every user is the score the update_score
\* and set_score calls alone would have produced, also for a user that had
\* no record or a legacy integer record when the refresh started.
RefreshKeepsScore ==
    (call.op = "refresh" /\ workers["main"].pc = "idle") =>
        \A u \in UserIds : ScoreOf(karma_db, u) = ScoreOf(call.alone, u)

-----------------------------------------------------------------------------
(* The paths of the image ring *)

\* the paths _save_image_to_disk has returned on success: those of the
\* earlier turns and those of this run
VaultedPaths == {"p1", "p2", "p3"} \cup {FreshPath(n) : n \in 1..(nextImage - 1)}

\* the user message the request appended to the history
RequestUserMessage == appendLog[req.user_id][req.appended + 1]

\* C28: the image ring holds only vaulted images. Every entry of every
\* context's ring is a non-empty path that a successful save returned, and a
\* request whose input image could not be saved leaves no image reference in
\* the user message it appends.
RingHoldsVaulted ==
    /\ \A c \in DOMAIN last_images :
          \A i \in 1..Len(last_images[c]) :
             last_images[c][i] # "" /\ last_images[c][i] \in VaultedPaths
    /\ (req.kind = "stored" /\ req.has_image /\ req.input_path = "") =>
          RequestUserMessage.content.image_url = ""

-----------------------------------------------------------------------------
(* The existence check of store_memory across users *)

\* the pair a store_memory call is about to look up
PairAtCheck(w) == [document |-> FullText(Head(workers[w].todo)), user_id |-> workers[w].user_id]

\* the lookup of that pair finds its id stored, so that the pair is skipped
SkippedAtCheck(w) ==
    /\ workers[w].pc = "check"
    /\ ExistingIds(collection, MemId(Head(workers[w].todo), workers[w].user_id)) # {}

\* C30: dedup never crosses users. A pair is skipped as already existing only
\* when that same fact text is stored for that same user: a fact stored under
\* another (fact text, user_id) pair never makes store_memory skip it.
DedupNeverCrossesUsers ==
    \A w \in {"t1", "t2"} :
        SkippedAtCheck(w) =>
            \E f \in collection : /\ f.document = PairAtCheck(w).document
                                  /\ f.user_id = PairAtCheck(w).user_id

====
